---- MODULE Spec2Model ----
(***************************************************************************)
(* A model of the Archiveopteryx storage core: the Mailbox registry, the   *)
(* helper-row creators, the Fetcher, the undelete command and the event    *)
(* loop.  Each part has its own variables and its own specification; the   *)
(* other parts' variables stay at their initial value.                     *)
(***************************************************************************)
EXTENDS Integers, Sequences, FiniteSets, TLC

VARIABLES
    mbs,        \* the Mailbox objects; mbs[1] is ::root
    byId,       \* ::mailboxes, the Map from database id to Mailbox object
    rows,       \* the mailboxes table
    readers,    \* results of MailboxReader queries not yet processed
    kind,       \* the helper table the creators work on
    req,        \* per process: the names its creator was asked for
    cr,         \* per process: HelperRowCreatorData
    cache,      \* per process: the in-memory intern table (key -> id)
    tq,         \* per process: the statements enqueued in its Transaction
    sent,       \* per process: how many of tq Transaction::execute submitted
    tx,         \* per process: the Transaction (and the server's view of it)
    tab,        \* the helper table's rows
    nextId,     \* the helper table's id sequence
    log,        \* per process: every statement its creator enqueued
    fd,         \* the Fetcher's FetcherData
    msgs,       \* the Message objects of the Fetcher's working set
    db,         \* what the database holds for the Fetcher's queries
    asked,      \* the data classes fetch() was called with
    bt,         \* a Fetcher on a long working set, held as counts
    base,       \* the committed rows the undelete command works on
    rowlock,    \* who holds the row lock on the mailbox's row (0: nobody)
    ud,         \* per process: UndeleteData and its database session
    el,         \* the EventLoop's LoopData
    cn,         \* the Connection objects of a running EventLoop
    tmr,        \* the Timer objects of a running EventLoop
    run,        \* where EventLoop::start is, and what it did last
    found,      \* the latest call of Mailbox::find and what it returned
    fl,         \* the flag table, the Flag cache and the FlagCreator at work
    rt,         \* a message on its way through parsing and asText
    mf,         \* a Mailbox's five Fetcher slots and the Fetcher objects
    sq,         \* a SORT command: its criteria and the query it builds
    hdr         \* a Header: its fields and its cached verification

mbVars == <<mbs, byId, rows, readers, found>>
crVars == <<kind, req, cr, cache, tq, sent, tx, tab, nextId, log>>
fVars == <<fd, msgs, db, asked>>
btVars == <<bt>>
udVars == <<base, rowlock, ud>>
loopVars == <<el>>
runVars == <<cn, tmr, run>>
flVars == <<fl>>
rtVars == <<rt>>
mfVars == <<mf>>
sqVars == <<sq>>
hdVars == <<hdr>>

vars ==
    <<mbVars, crVars, fVars, btVars, udVars, loopVars, runVars, flVars,
      rtVars,
      mfVars, sqVars, hdVars>>

notMailbox ==
    <<crVars, fVars, btVars, udVars, loopVars, runVars, flVars, rtVars,
      mfVars, sqVars, hdVars>>
notCreator ==
    <<mbVars, fVars, btVars, udVars, loopVars, runVars, flVars, rtVars,
      mfVars, sqVars, hdVars>>
notFetcher ==
    <<mbVars, crVars, btVars, udVars, loopVars, runVars, flVars, rtVars,
      mfVars, sqVars, hdVars>>
notBatch ==
    <<mbVars, crVars, fVars, udVars, loopVars, runVars, flVars, rtVars,
      mfVars, sqVars, hdVars>>
notUndelete ==
    <<mbVars, crVars, fVars, btVars, loopVars, runVars, flVars, rtVars,
      mfVars, sqVars, hdVars>>
notLoop ==
    <<mbVars, crVars, fVars, btVars, udVars, runVars, flVars, rtVars,
      mfVars, sqVars, hdVars>>
notRun == <<mbVars, crVars, fVars, btVars, udVars, flVars, rtVars,
      mfVars, sqVars, hdVars>>
notFlag ==
    <<mbVars, crVars, fVars, btVars, udVars, loopVars, runVars, rtVars,
      mfVars, sqVars, hdVars>>
notRound ==
    <<mbVars, crVars, fVars, btVars, udVars, loopVars, runVars, flVars,
      mfVars, sqVars, hdVars>>
notSlots ==
    <<mbVars, crVars, fVars, btVars, udVars, loopVars, runVars, flVars,
      rtVars, sqVars, hdVars>>
notSort ==
    <<mbVars, crVars, fVars, btVars, udVars, loopVars, runVars, flVars,
      rtVars, mfVars, hdVars>>
notHeader ==
    <<mbVars, crVars, fVars, btVars, udVars, loopVars, runVars, flVars,
      rtVars, mfVars, sqVars>>

\* The parts that a specification leaves alone: no Fetcher exists.
IdleFetcher ==
    /\ fd = <<>>
    /\ msgs = <<>>
    /\ db = <<>>
    /\ asked = {}

IdleBatch == bt = <<>>

\* No undelete command runs.
IdleUndelete ==
    /\ base = <<>>
    /\ rowlock = 0
    /\ ud = <<>>

\* No EventLoop exists.
IdleLoop == el = <<>>

\* No EventLoop runs.
IdleRun ==
    /\ cn = <<>>
    /\ tmr = <<>>
    /\ run = <<>>

\* No FlagCreator is at work.
IdleFlag == fl = <<>>
IdleRound == rt = <<>>
IdleSlots == mf = <<>>
IdleSort == sq = <<>>
IdleHeader == hdr = <<>>

(***************************************************************************)
(* Bounds.                                                                 *)
(***************************************************************************)
MaxUid == 2
MaxReaders == 1
MaxRounds == 2
MaxJumps == 1

(***************************************************************************)
(* Mailbox registry (server/mailbox.cpp).                                  *)
(* A mailbox name is the sequence of its path segments; "/" is <<>>.       *)
(***************************************************************************)
Segs == {"a", "A", "b"}

\* The user ids a mailbox can be owned by; 0 is "no owner".
Owners == {0, 1}

lower(s) ==
    IF s = "A" THEN "a"
    ELSE IF s = "USERS" THEN "users"
    ELSE IF s = "Bob" THEN "bob"
    ELSE s

lowerName(n) == [i \in DOMAIN n |-> lower(n[i])]

PathNames == {<<"a">>, <<"A", "b">>}

\* The names (lowercased) of the mailboxes that get a row in the database.
StoredNames == {<<"a">>}

\* The EventHandlers that watch mailboxes; 0 is the null pointer.
EventHandlers == {1, 2}

\* watchers is the list d->watchers (empty for the null pointer).  Two
\* fields are kept for the record only: ran lists the handlers the latest
\* call of setUidnext on this Mailbox executed, in order, and reg is the
\* set of handlers addWatcher was called for and removeWatcher was not
\* called for since.
MailboxData(name, parent) ==
    [name |-> name, type |-> "Synthetic", id |-> 0, uidnext |-> 0,
     uidvalidity |-> 0, owner |-> 0, parent |-> parent, children |-> <<>>,
     watchers |-> <<>>, ran |-> <<>>, reg |-> {}]

\* The search of Mailbox::obtain without lower() on the child's name.
RECURSIVE findChildExact(_, _, _)
findChildExact(ms, l, lname) ==
    IF l = <<>> THEN 0
    ELSE IF ms[Head(l)].name = lname THEN Head(l)
    ELSE findChildExact(ms, Tail(l), lname)

\* The index of the first element of list l (indices into ms) whose
\* lowercased name is lname, or 0.
RECURSIVE findChild(_, _, _)
findChild(ms, l, lname) ==
    IF l = <<>> THEN 0
    ELSE IF lowerName(ms[Head(l)].name) = lname THEN Head(l)
    ELSE findChild(ms, Tail(l), lname)

\* Mailbox::obtain: the registry after the call, and the Mailbox found or
\* made (0 is the null pointer).
RECURSIVE obtain(_, _, _)
obtain(ms, name, create) ==
    IF name = <<>> THEN [ms |-> ms, m |-> 1]
    ELSE
        LET up == IF Len(name) > 1
                  THEN obtain(ms, SubSeq(name, 1, Len(name) - 1), create)
                  ELSE [ms |-> ms, m |-> 1]
            parent == up.m
            ms1 == up.ms
        IN  IF parent = 0 THEN [ms |-> ms1, m |-> 0]
            ELSE IF ~create /\ ms1[parent].children = <<>>
            THEN [ms |-> ms1, m |-> 0]
            ELSE LET it == findChild(ms1, ms1[parent].children, lowerName(name))
                 IN  IF it # 0 THEN [ms |-> ms1, m |-> it]
                     ELSE IF ~create THEN [ms |-> ms1, m |-> 0]
                     ELSE LET new == Len(ms1) + 1
                              ms2 == Append(ms1, MailboxData(name, parent))
                          IN  [ms |-> [ms2 EXCEPT ![parent].children =
                                                      Append(@, new)],
                               m |-> new]

\* The loop of Mailbox::setUidnext over the watchers in l: the handlers
\* it executes, in order.
RECURSIVE notify(_)
notify(l) ==
    IF l = <<>> THEN <<>> ELSE <<Head(l)>> \o notify(Tail(l))

\* Mailbox::setUidnext, on the registry ms.
setUidnext(ms, m, n) ==
    IF n = ms[m].uidnext THEN [ms EXCEPT ![m].ran = <<>>]
    ELSE [ms EXCEPT ![m].uidnext = n, ![m].ran = notify(ms[m].watchers)]

\* Mailbox::addWatcher without the test for a handler that watches already.
addWatcherNoFind(ms, m, eh) ==
    IF eh # 0
    THEN [ms EXCEPT ![m].watchers = Append(@, eh)]
    ELSE ms

\* Mailbox::addWatcher.
addWatcher(ms, m, eh) ==
    IF eh # 0 /\ \A i \in DOMAIN ms[m].watchers : ms[m].watchers[i] # eh
    THEN [ms EXCEPT ![m].watchers = Append(@, eh)]
    ELSE ms

\* List::remove: l without its first element equal to eh.
RECURSIVE listRemove(_, _)
listRemove(l, eh) ==
    IF l = <<>> THEN <<>>
    ELSE IF Head(l) = eh THEN Tail(l)
    ELSE <<Head(l)>> \o listRemove(Tail(l), eh)

\* Mailbox::removeWatcher.
removeWatcher(ms, m, eh) ==
    IF ms[m].watchers = <<>> \/ eh = 0 THEN ms
    ELSE [ms EXCEPT ![m].watchers = listRemove(@, eh)]

\* Mailbox::find without the test for a synthetic Mailbox.
findMailboxSynthetic(ms, name, deleted) ==
    LET m == obtain(ms, name, FALSE).m
    IN  IF m = 0 THEN 0
        ELSE IF ms[m].type = "Deleted" /\ ~deleted THEN 0
        ELSE m

\* Mailbox::find (0 is the null pointer).
findMailbox(ms, name, deleted) ==
    LET m == obtain(ms, name, FALSE).m
    IN  IF m = 0 THEN 0
        ELSE IF ms[m].type = "Deleted" /\ ~deleted THEN 0
        ELSE IF ms[m].type = "Synthetic" THEN 0
        ELSE m

rowType(r) ==
    IF r.deleted THEN "Deleted"
    ELSE IF ~r.view THEN "Ordinary"
    ELSE "View"

\* One round of the loop of MailboxReader::execute, for row r.
readRow(st, r) ==
    LET ob == obtain(st.ms, r.name, TRUE)
        m == ob.m
        ms1 == [ob.ms EXCEPT ![m].name = r.name,
                             ![m].id = r.id,
                             ![m].type = rowType(r),
                             ![m].uidvalidity = r.uidvalidity]
        ms2 == setUidnext(ms1, m, r.uidnext)
        ms3 == IF r.owner # 0 THEN [ms2 EXCEPT ![m].owner = r.owner] ELSE ms2
    IN  [ms |-> ms3,
         map |-> IF r.id # 0
                 THEN {p \in st.map : p[1] # r.id} \cup {<<r.id, m>>}
                 ELSE st.map]

RECURSIVE readRows(_, _)
readRows(st, rs) ==
    IF rs = <<>> THEN st ELSE readRows(readRow(st, Head(rs)), Tail(rs))

\* The rows "select ... from mailboxes where name=$1" returns.
selectByName(name) ==
    IF \E r \in rows : r.name = name
    THEN <<CHOOSE r \in rows : r.name = name>>
    ELSE <<>>

IdleMailbox ==
    /\ mbs = <<MailboxData(<<>>, 0)>>
    /\ byId = {}
    /\ rows = {}
    /\ readers = <<>>
    /\ found = <<>>

IdleCreator ==
    /\ kind = "flag_names"
    /\ req = <<>>
    /\ cr = <<>>
    /\ cache = <<>>
    /\ tq = <<>>
    /\ sent = <<>>
    /\ tx = <<>>
    /\ tab = {}
    /\ nextId = 1
    /\ log = <<>>

InitMailbox ==
    /\ mbs = <<MailboxData(<<>>, 0)>>
    /\ byId = {}
    /\ rows = {}
    /\ readers = <<>>
    /\ found = <<>>

\* A caller looks a name up, making the Mailbox objects it needs.
Obtain(name) ==
    /\ mbs' = obtain(mbs, name, TRUE).ms
    /\ UNCHANGED <<byId, rows, readers, found, notMailbox>>

\* OCClient (or anyone else) calls Mailbox::setUidnext( n ).
SetUidnext(m, n) ==
    /\ mbs[m].id # 0
    /\ mbs' = setUidnext(mbs, m, n)
    /\ UNCHANGED <<byId, rows, readers, found, notMailbox>>

\* A session starts to watch Mailbox m.
AddWatcher(m, eh) ==
    /\ mbs[m].id # 0
    /\ mbs' = [addWatcher(mbs, m, eh) EXCEPT
                  ![m].reg = IF eh # 0 THEN @ \cup {eh} ELSE @]
    /\ UNCHANGED <<byId, rows, readers, found, notMailbox>>

\* A session stops watching Mailbox m.
RemoveWatcher(m, eh) ==
    /\ mbs[m].id # 0
    /\ mbs' = [removeWatcher(mbs, m, eh) EXCEPT ![m].reg = @ \ {eh}]
    /\ UNCHANGED <<byId, rows, readers, found, notMailbox>>

\* Mailbox::refresh: the reader's query runs.
Refresh(m) ==
    /\ Len(readers) < MaxReaders
    /\ readers' = Append(readers, selectByName(mbs[m].name))
    /\ UNCHANGED <<mbs, byId, rows, found, notMailbox>>

\* The statement of Mailbox::remove on the mailbox's row r:
\* "update mailboxes set deleted='t',owner=null where id=$1".
removeRow(r) == [r EXCEPT !.deleted = TRUE, !.owner = 0]

\* A statement that brings a deleted mailbox back as a new one.
createRowAnew(r, owner) ==
    [r EXCEPT !.deleted = FALSE, !.owner = owner, !.uidnext = 1]

\* The statement of Mailbox::create on a deleted mailbox's row r:
\* "update mailboxes set deleted='f',owner=$2 where id=$1".
createRow(r, owner) == [r EXCEPT !.deleted = FALSE, !.owner = owner]

\* Mailbox::create in a Transaction that commits: the statement and the
\* reader's query run.
Create(m, owner) ==
    /\ Len(readers) < MaxReaders
    /\ \/ /\ mbs[m].type = "Deleted"
          /\ rows' = {IF r.id = mbs[m].id
                      THEN createRow(r, owner)
                      ELSE r : r \in rows}
       \/ /\ mbs[m].type # "Deleted"
          /\ mbs[m].id = 0
          /\ lowerName(mbs[m].name) \in StoredNames
          /\ \A r \in rows : r.name # mbs[m].name
          /\ rows' = rows \cup
                 {[name |-> mbs[m].name, id |-> Cardinality(rows) + 1,
                   deleted |-> FALSE, uidnext |-> 1, uidvalidity |-> 1,
                   owner |-> owner, view |-> FALSE]}
    /\ readers' = Append(readers,
                         IF \E r \in rows' : r.name = mbs[m].name
                         THEN <<CHOOSE r \in rows' : r.name = mbs[m].name>>
                         ELSE <<>>)
    /\ UNCHANGED <<mbs, byId, found, notMailbox>>

\* Mailbox::remove in a Transaction that commits.
Remove(m) ==
    /\ Len(readers) < MaxReaders
    /\ mbs[m].type \notin {"Synthetic", "Deleted"}
    /\ rows' = {IF r.id = mbs[m].id
                THEN removeRow(r)
                ELSE r : r \in rows}
    /\ readers' = Append(readers,
                         IF \E r \in rows' : r.name = mbs[m].name
                         THEN <<CHOOSE r \in rows' : r.name = mbs[m].name>>
                         ELSE <<>>)
    /\ UNCHANGED <<mbs, byId, found, notMailbox>>

\* Another process delivers a message: the row's uidnext advances.
Deliver(id) ==
    /\ \E r \in rows : r.id = id /\ ~r.deleted /\ r.uidnext < MaxUid
    /\ rows' = {IF r.id = id THEN [r EXCEPT !.uidnext = @ + 1] ELSE r
                : r \in rows}
    /\ UNCHANGED <<mbs, byId, readers, found, notMailbox>>

\* MailboxReader::execute, once its query is done.
MailboxReaderExecute ==
    /\ readers # <<>>
    /\ LET st == readRows([ms |-> mbs, map |-> byId], Head(readers))
       IN  /\ mbs' = st.ms
           /\ byId' = st.map
    /\ readers' = Tail(readers)
    /\ UNCHANGED <<rows, found, notMailbox>>

NextMailbox ==
    \/ \E name \in PathNames : Obtain(name)
    \/ \E m \in DOMAIN mbs, n \in 0..MaxUid : SetUidnext(m, n)
    \/ \E m \in DOMAIN mbs, eh \in EventHandlers \cup {0} :
           AddWatcher(m, eh)
    \/ \E m \in DOMAIN mbs, eh \in EventHandlers \cup {0} :
           RemoveWatcher(m, eh)
    \/ \E m \in DOMAIN mbs : Refresh(m)
    \/ \E m \in DOMAIN mbs, owner \in Owners : Create(m, owner)
    \/ \E m \in DOMAIN mbs : Remove(m)
    \/ \E id \in 1..Cardinality(rows) : Deliver(id)
    \/ MailboxReaderExecute

MailboxInit ==
    InitMailbox /\ IdleCreator /\ IdleFetcher /\ IdleBatch
    /\ IdleUndelete /\ IdleLoop /\ IdleRun /\ IdleFlag
    /\ IdleRound /\ IdleSlots /\ IdleSort /\ IdleHeader

SpecMailbox == MailboxInit /\ [][NextMailbox]_vars

\* C18: a step that deletes a mailbox or brings a deleted one back changes
\* only the deleted and owner columns of its row, so that id, uidvalidity and
\* uidnext are after the re-creation what they were before the deletion;
\* and over create, remove and reload the uidvalidity of no row and of no
\* Mailbox decreases, and a Mailbox that has an id keeps it.
DeletionKeepsUidSeries ==
    [][/\ \A r \in rows :
             \E r2 \in rows' :
                 /\ r2.id = r.id
                 /\ r2.name = r.name
                 /\ r2.uidvalidity >= r.uidvalidity
                 /\ r.deleted \/ r2.deleted =>
                        /\ r2.uidnext = r.uidnext
                        /\ r2.uidvalidity = r.uidvalidity
                        /\ r2.view = r.view
        /\ \A m \in DOMAIN mbs :
             /\ mbs'[m].uidvalidity >= mbs[m].uidvalidity
             /\ mbs[m].id # 0 => mbs'[m].id = mbs[m].id]_vars

\* A mailbox that got a message, was deleted (the Mailbox was reloaded as
\* Deleted) and has been created again for owner 1; its row has the uidnext
\* it had.
RecreatedWitness ==
    \E m \in DOMAIN mbs :
        /\ mbs[m].type = "Deleted"
        /\ \E r \in rows :
              /\ r.id = mbs[m].id
              /\ ~r.deleted
              /\ r.owner = 1
              /\ r.uidnext = 2
              /\ r.uidvalidity = 1

(***************************************************************************)
(* Mailbox::setup on a database with rows for /users/alice/inbox and       *)
(* /users/bob/inbox only.                                                  *)
(***************************************************************************)
SetupRow(name, id, deleted) ==
    [name |-> name, id |-> id, deleted |-> deleted, uidnext |-> 1,
     uidvalidity |-> 1, owner |-> 1, view |-> FALSE]

\* The names other callers obtain while and after the tree is set up.
SetupNames == {<<"users", "alice", "sent">>, <<"tmp">>, <<"users", "bob">>}

\* The names find is called with.
FindNames ==
    {<<>>, <<"users">>, <<"users", "alice">>, <<"users", "alice", "inbox">>,
     <<"USERS", "Bob", "inbox">>, <<"users", "bob", "sent">>, <<"tmp">>}

\* Mailbox::setup has returned: the root is made, and the MailboxReader's
\* query for all rows is on its way; the rows come in either order.
InitSetup ==
    /\ mbs = <<MailboxData(<<>>, 0)>>
    /\ byId = {}
    /\ \E da, db0 \in BOOLEAN :
          rows = {SetupRow(<<"users", "alice", "inbox">>, 1, da),
                  SetupRow(<<"users", "bob", "inbox">>, 2, db0)}
    /\ \E x \in rows, y \in rows : x # y /\ readers = <<<<x, y>>>>
    /\ found = <<>>

\* A caller asks Mailbox::find for a name.
Find(name, deleted) ==
    /\ found' = [name |-> name, deleted |-> deleted,
                 m |-> findMailbox(mbs, name, deleted)]
    /\ UNCHANGED <<mbs, byId, rows, readers, notMailbox>>

NextSetup ==
    \/ MailboxReaderExecute
    \/ \E name \in SetupNames : Obtain(name)
    \/ \E name \in FindNames, deleted \in BOOLEAN : Find(name, deleted)

SetupInit ==
    InitSetup /\ IdleCreator /\ IdleFetcher /\ IdleBatch
    /\ IdleUndelete /\ IdleLoop /\ IdleRun /\ IdleFlag
    /\ IdleRound /\ IdleSlots /\ IdleSort /\ IdleHeader

SpecSetup == SetupInit /\ [][NextSetup]_vars

\* C17: once the rows for /users/alice/inbox and /users/bob/inbox are
\* loaded, one Mailbox is named /users, and it is Synthetic and has exactly
\* two children; and when find returned a Mailbox, that Mailbox has the name
\* asked for (as names are looked up, ignoring case), is not Synthetic, and
\* is Deleted only if find was called with deleted true.
SetupTreeAndFind ==
    /\ readers = <<>> =>
          /\ \E u \in DOMAIN mbs :
                /\ mbs[u].name = <<"users">>
                /\ mbs[u].type = "Synthetic"
                /\ Len(mbs[u].children) = 2
          /\ Cardinality({u \in DOMAIN mbs :
                             lowerName(mbs[u].name) = <<"users">>}) = 1
    /\ found # <<>> /\ found.m # 0 =>
          /\ found.m \in DOMAIN mbs
          /\ lowerName(mbs[found.m].name) = lowerName(found.name)
          /\ mbs[found.m].type # "Synthetic"
          /\ mbs[found.m].type = "Deleted" => found.deleted

\* After setup find was asked for /users, found the Synthetic Mailbox and
\* returned the null pointer.
SyntheticNotFoundWitness ==
    /\ readers = <<>>
    /\ found # <<>>
    /\ found.name = <<"users">>
    /\ found.m = 0
    /\ obtain(mbs, <<"users">>, FALSE).m # 0

\* C1: for every Mailbox, uidnext never decreases from one state to the next.
UidnextNeverDecreases ==
    [][\A m \in DOMAIN mbs : mbs'[m].uidnext >= mbs[m].uidnext]_vars

\* How many times handler h is in the list l.
timesIn(l, h) == Cardinality({i \in DOMAIN l : l[i] = h})

\* C15: a step in which the uidnext of a Mailbox goes up executes every
\* handler that was registered with addWatcher and not removed since exactly
\* once (also one that addWatcher was called for twice) and no other
\* handler; a call of setUidnext that leaves uidnext as it was executes none.
WatchersRunOncePerAdvance ==
    [][\A m \in DOMAIN mbs :
          /\ mbs'[m].uidnext > mbs[m].uidnext
                => \A h \in EventHandlers :
                       timesIn(mbs'[m].ran, h) =
                           IF h \in mbs[m].reg THEN 1 ELSE 0
          /\ mbs'[m].uidnext = mbs[m].uidnext /\ mbs'[m].ran # mbs[m].ran
                => mbs'[m].ran = <<>>]_vars

\* A Mailbox whose uidnext went up while two handlers watched it, one of
\* which was registered, removed and registered again behind the other.
WatchersRunWitness ==
    \E m \in DOMAIN mbs :
        /\ mbs[m].uidnext > 1
        /\ mbs[m].watchers = <<2, 1>>
        /\ mbs[m].ran = <<2, 1>>

\* Name n as it is compared: as it is, or ignoring case.
shown(n, fold) == IF fold THEN lowerName(n) ELSE n

\* The tree is rooted at "/" and connected, names compared as fold says:
\* each Mailbox but the root has a parent named as its own name up to the
\* last slash and is once in that parent's children; each name above a
\* Mailbox belongs to a Mailbox, a Synthetic one when no row has that name;
\* no two children of a parent have names that are equal ignoring case.
Tree(fold) ==
    /\ mbs[1].name = <<>>
    /\ \A m \in DOMAIN mbs \ {1} :
          LET n == mbs[m].name
              p == mbs[m].parent
          IN  /\ n # <<>>
              /\ p \in DOMAIN mbs
              /\ shown(mbs[p].name, fold) =
                     shown(SubSeq(n, 1, Len(n) - 1), fold)
              /\ timesIn(mbs[p].children, m) = 1
              /\ \A k \in 0..(Len(n) - 1) :
                     \E a \in DOMAIN mbs :
                         /\ shown(mbs[a].name, fold) =
                                shown(SubSeq(n, 1, k), fold)
                         /\ (\A r \in rows :
                                shown(r.name, fold) # shown(mbs[a].name, fold))
                               => mbs[a].type = "Synthetic"
    /\ \A p \in DOMAIN mbs :
          \A i, j \in DOMAIN mbs[p].children :
              /\ mbs[p].children[i] \in DOMAIN mbs \ {1}
              /\ mbs[mbs[p].children[i]].parent = p
              /\ i # j => lowerName(mbs[mbs[p].children[i]].name)
                             # lowerName(mbs[mbs[p].children[j]].name)

\* C16 as stated: after any sequence of obtain calls and row loads the tree
\* is rooted at "/" and connected, each Mailbox but the root having a parent
\* whose name is the Mailbox's own name up to the last slash.
TreeIsRooted == Tree(FALSE)

\* C16: after any sequence of obtain calls and row loads the tree is rooted
\* at "/" and connected, each Mailbox but the root having a parent whose
\* name is, ignoring case, the Mailbox's own name up to the last slash.
TreeIsRootedIgnoringCase == Tree(TRUE)

\* A Mailbox loaded from its row with a child below it that was obtained
\* under a name of another case.
TreeMixedCaseWitness ==
    \E m \in DOMAIN mbs, c \in DOMAIN mbs :
        /\ mbs[m].id # 0
        /\ mbs[m].type = "Ordinary"
        /\ mbs[c].parent = m
        /\ mbs[m].name # SubSeq(mbs[c].name, 1, Len(mbs[c].name) - 1)

(***************************************************************************)
(* Helper-row creators (message/helperrowcreator.cpp, message/flag.cpp).   *)
(* Two server processes each run one creator in a Transaction of their     *)
(* own, on the same helper table.                                          *)
(***************************************************************************)
Procs == {1, 2}

Kinds == {"flag_names", "field_names", "annotation_names"}

DictNames == {"a", "A", "b"}

\* The lists of names a creator can be asked for.
Requests == {<<"a">>, <<"A">>, <<"b">>, <<"a", "b">>, <<"a", "A">>}

\* What the table's unique constraint and the creator's SELECT compare:
\* lower(name) for flag_names, the name itself for the other two.
key(k, n) == IF k = "flag_names" THEN lower(n) ELSE n

\* Flag::id, FieldName::id, AnnotationName::id.
idOf(k, ch, n) == ch[key(k, n)]

\* Flag::add, FieldName::add, AnnotationName::add.
add(k, ch, n, id) == [ch EXCEPT ![key(k, n)] = id]

\* A makeSelect that asks for every name, known or not.
makeSelectAll(k, names, ch) == [i \in DOMAIN names |-> key(k, names[i])]

\* FlagCreator::makeSelect etc.: the array bound to $1; <<>> is "return 0".
makeSelect(k, names, ch) ==
    LET sl == SelectSeq(names, LAMBDA n : idOf(k, ch, n) = 0)
    IN  [i \in DOMAIN sl |-> key(k, sl[i])]

\* FlagCreator::processSelect etc.: every row of the result is added.
RECURSIVE processSelect(_, _, _)
processSelect(k, ch, res) ==
    IF res = {} THEN ch
    ELSE LET r == CHOOSE x \in res : TRUE
         IN  processSelect(k, add(k, ch, r.name, r.id), res \ {r})

\* FlagCreator::makeCopy etc.: the lines submitted; <<>> is "return 0".
makeCopyNothing(k, names, ch) == <<>>

makeCopy(k, names, ch) == SelectSeq(names, LAMBDA n : idOf(k, ch, n) = 0)

\* Kept for the record only: lost, total and won say that a COPY failed on
\* the constraint, failed otherwise, succeeded; notified that the
\* Transaction's notify() was called.
HelperRowCreatorData ==
    [s |-> "null", sres |-> {}, c |-> "null", cerr |-> "none",
     sp |-> FALSE, done |-> FALSE,
     lost |-> FALSE, total |-> FALSE, won |-> FALSE, notified |-> FALSE]

\* Transaction::enqueue( q ) within one call of execute(): st.q collects the
\* statements, st.n is how many of them Transaction::execute has submitted.
enqueue(st, q) == [st EXCEPT !.q = Append(@, q)]

submit(st) == [st EXCEPT !.n = Len(st.q), !.called = TRUE]

\* helperrowcreator.cpp line 79-88.
selectStep(k, names, st) ==
    IF st.s # "null" THEN st
    ELSE LET sl == makeSelect(k, names, st.cache)
         IN  IF sl # <<>>
             THEN submit(enqueue([st EXCEPT !.s = "sent"],
                                 [op |-> "select", arg |-> sl]))
             ELSE [st EXCEPT !.done = TRUE]

\* Line 90-105 with a SAVEPOINT before every COPY.
copyStepSavepointEach(k, names, st) ==
    IF ~(st.s = "done" /\ st.c = "null") THEN st
    ELSE LET ch == processSelect(k, st.cache, st.sres)
             lines == makeCopy(k, names, ch)
             st1 == [st EXCEPT !.cache = ch, !.s = "null", !.sres = {}]
         IN  IF lines # <<>>
             THEN LET st2 == [enqueue(st1, [op |-> "savepoint",
                                            arg |-> <<>>])
                              EXCEPT !.sp = TRUE]
                  IN  submit(enqueue([st2 EXCEPT !.c = "sent"],
                                     [op |-> "copy", arg |-> lines]))
             ELSE [st1 EXCEPT !.done = TRUE]

\* helperrowcreator.cpp line 90-105.
copyStep(k, names, st) ==
    IF ~(st.s = "done" /\ st.c = "null") THEN st
    ELSE LET ch == processSelect(k, st.cache, st.sres)
             lines == makeCopy(k, names, ch)
             st1 == [st EXCEPT !.cache = ch, !.s = "null", !.sres = {}]
         IN  IF lines # <<>>
             THEN LET st2 == IF ~st1.sp
                             THEN [enqueue(st1, [op |-> "savepoint",
                                                 arg |-> <<>>])
                                   EXCEPT !.sp = TRUE]
                             ELSE st1
                  IN  submit(enqueue([st2 EXCEPT !.c = "sent"],
                                     [op |-> "copy", arg |-> lines]))
             ELSE [st1 EXCEPT !.done = TRUE]

\* helperrowcreator.cpp line 107-124.
failureStep(st) ==
    IF st.c # "done" THEN st
    ELSE LET st1 == [st EXCEPT !.c = "null", !.cerr = "none"]
         IN  IF st.cerr = "none" THEN [st1 EXCEPT !.won = TRUE]
             ELSE IF st.cerr = "constraint"
             THEN enqueue([st1 EXCEPT !.lost = TRUE],
                          [op |-> "rollback to savepoint", arg |-> <<>>])
             ELSE [st1 EXCEPT !.done = TRUE, !.sp = FALSE, !.total = TRUE]

\* The loop of HelperRowCreator::execute, until it returns or ends.
RECURSIVE loop(_, _, _)
loop(k, names, st) ==
    IF st.done THEN st
    ELSE IF st.s = "sent" \/ st.c = "sent" THEN [st EXCEPT !.ret = TRUE]
    ELSE loop(k, names, failureStep(copyStep(k, names,
                                             selectStep(k, names, st))))

\* helperrowcreator.cpp line 127-133.
afterLoopNoRelease(st) == [st EXCEPT !.notified = TRUE]

afterLoop(st) ==
    LET st1 == IF st.sp
               THEN enqueue(enqueue(st, [op |-> "release savepoint",
                                         arg |-> <<>>]),
                            [op |-> "notify", arg |-> <<>>])
               ELSE st
    IN  [st1 EXCEPT !.notified = TRUE]

\* HelperRowCreator::execute.
execute(k, names, d, ch) ==
    LET st0 == [s |-> d.s, sres |-> d.sres, c |-> d.c, cerr |-> d.cerr,
                sp |-> d.sp, done |-> d.done, lost |-> d.lost,
                total |-> d.total, won |-> d.won, cache |-> ch,
                q |-> <<>>, n |-> 0, called |-> FALSE, ret |-> FALSE,
                notified |-> d.notified]
        st == loop(k, names, st0)
    IN  IF st.ret THEN st ELSE afterLoop(st)

copies(l) == Len(SelectSeq(l, LAMBDA q : q.op = "copy"))

\* The rows process p's statements see: committed ones and its own.
visible(p) == {r \in tab : r.by \in {0, p}}

InitCreator ==
    /\ kind \in Kinds
    /\ req \in [Procs -> Requests]
    /\ cr = [p \in Procs |-> HelperRowCreatorData]
    /\ \E known \in SUBSET {"b"} :
         /\ tab = {[id |-> 1, name |-> "b", by |-> 0, sp |-> FALSE]}
         /\ cache = [p \in Procs |->
                        [n \in DictNames |-> IF n \in known THEN 1 ELSE 0]]
    /\ tq = [p \in Procs |-> <<>>]
    /\ sent = [p \in Procs |-> 0]
    /\ tx = [p \in Procs |-> [state |-> "open", failed |-> FALSE,
                              aborted |-> FALSE, hasSp |-> FALSE]]
    /\ nextId = 2
    /\ log = [p \in Procs |-> <<>>]

\* execute() is called: at the start, or because the creator's SELECT or
\* COPY has completed.
CreatorExecute(p) ==
    /\ tx[p].state = "open"
    /\ ~cr[p].done
    /\ cr[p].s # "sent" /\ cr[p].c # "sent"
    /\ LET st == execute(kind, req[p], cr[p], cache[p])
       IN  /\ copies(log[p] \o st.q) <= MaxRounds
           /\ cr' = [cr EXCEPT ![p] =
                        [s |-> st.s, sres |-> st.sres, c |-> st.c,
                         cerr |-> st.cerr, sp |-> st.sp, done |-> st.done,
                         lost |-> st.lost, total |-> st.total,
                         won |-> st.won, notified |-> st.notified]]
           /\ cache' = [cache EXCEPT ![p] = st.cache]
           /\ tq' = [tq EXCEPT ![p] = @ \o st.q]
           /\ sent' = [sent EXCEPT ![p] =
                          IF st.called THEN Len(tq[p]) + st.n ELSE @]
           /\ log' = [log EXCEPT ![p] = @ \o st.q]
    /\ UNCHANGED <<kind, req, tx, tab, nextId, notCreator>>

\* The Transaction's owner commits once the creator is done.
Commit(p) ==
    /\ tx[p].state = "open"
    /\ cr[p].done
    /\ tq' = [tq EXCEPT ![p] = Append(@, [op |-> "commit", arg |-> <<>>])]
    /\ sent' = [sent EXCEPT ![p] = Len(tq[p]) + 1]
    /\ tx' = [tx EXCEPT ![p].state = "committing"]
    /\ UNCHANGED <<kind, req, cr, cache, tab, nextId, log, notCreator>>

\* A statement fails: a Transaction is poisoned by any failed statement
\* that is not marked allowFailure, and the creator marks none.
failed(t) == [t EXCEPT !.failed = TRUE, !.aborted = TRUE]

pop(p) ==
    /\ tq' = [tq EXCEPT ![p] = Tail(@)]
    /\ sent' = [sent EXCEPT ![p] = @ - 1]

\* The keys of the lines of a COPY, and whether two lines share one.
lineKeys(lines) == {key(kind, lines[i]) : i \in DOMAIN lines}

RECURSIVE insertLines(_, _, _)
insertLines(p, lines, id) ==
    IF lines = <<>> THEN {}
    ELSE {[id |-> id, name |-> Head(lines), by |-> p, sp |-> tx[p].hasSp]}
         \cup insertLines(p, Tail(lines), id + 1)

DbSelect(p) ==
    /\ sent[p] > 0 /\ Head(tq[p]).op = "select"
    /\ pop(p)
    /\ IF tx[p].aborted
       THEN /\ cr' = [cr EXCEPT ![p].s = "done", ![p].sres = {}]
            /\ tx' = [tx EXCEPT ![p] = failed(@)]
       ELSE /\ cr' = [cr EXCEPT ![p].s = "done",
                        ![p].sres = {r \in visible(p) :
                            \E i \in DOMAIN Head(tq[p]).arg :
                                key(kind, r.name) = Head(tq[p]).arg[i]}]
            /\ tx' = tx
    /\ UNCHANGED <<kind, req, cache, tab, nextId, log, notCreator>>

\* COPY: it waits while another open transaction holds a row with one of
\* its keys; it fails on the unique constraint, or for some other reason;
\* or it inserts its lines.
DbCopy(p) ==
    /\ sent[p] > 0 /\ Head(tq[p]).op = "copy"
    /\ LET lines == Head(tq[p]).arg
           clash == \/ Cardinality(lineKeys(lines)) < Len(lines)
                    \/ \E r \in visible(p) :
                          key(kind, r.name) \in lineKeys(lines)
       IN  /\ \A r \in tab \ visible(p) :
                  key(kind, r.name) \notin lineKeys(lines)
           /\ pop(p)
           /\ \/ /\ tx[p].aborted \/ clash
                 /\ cr' = [cr EXCEPT ![p].c = "done",
                             ![p].cerr = IF tx[p].aborted THEN "other"
                                         ELSE "constraint"]
                 /\ tx' = [tx EXCEPT ![p] = failed(@)]
                 /\ UNCHANGED <<tab, nextId>>
              \/ /\ ~tx[p].aborted /\ ~clash
                 /\ cr' = [cr EXCEPT ![p].c = "done", ![p].cerr = "none"]
                 /\ tab' = tab \cup insertLines(p, lines, nextId)
                 /\ nextId' = nextId + Len(lines)
                 /\ tx' = tx
              \/ /\ ~tx[p].aborted /\ ~clash
                 /\ cr' = [cr EXCEPT ![p].c = "done", ![p].cerr = "other"]
                 /\ tx' = [tx EXCEPT ![p] = failed(@)]
                 /\ UNCHANGED <<tab, nextId>>
    /\ UNCHANGED <<kind, req, cache, log, notCreator>>

\* SAVEPOINT, ROLLBACK TO SAVEPOINT, RELEASE SAVEPOINT and NOTIFY.
DbOther(p) ==
    /\ sent[p] > 0
    /\ pop(p)
    /\ \/ /\ Head(tq[p]).op = "savepoint"
          /\ IF tx[p].aborted
             THEN tx' = [tx EXCEPT ![p] = failed(@)] /\ tab' = tab
             ELSE /\ tx' = [tx EXCEPT ![p].hasSp = TRUE]
                  /\ tab' = tab
       \/ /\ Head(tq[p]).op = "rollback to savepoint"
          /\ IF tx[p].hasSp
             THEN /\ tx' = [tx EXCEPT ![p].aborted = FALSE]
                  /\ tab' = {r \in tab : ~(r.by = p /\ r.sp)}
             ELSE tx' = [tx EXCEPT ![p] = failed(@)] /\ tab' = tab
       \/ /\ Head(tq[p]).op = "release savepoint"
          /\ IF tx[p].aborted \/ ~tx[p].hasSp
             THEN tx' = [tx EXCEPT ![p] = failed(@)] /\ tab' = tab
             ELSE /\ tx' = [tx EXCEPT ![p].hasSp = FALSE]
                  /\ tab' = {IF r.by = p THEN [r EXCEPT !.sp = FALSE] ELSE r
                             : r \in tab}
       \/ /\ Head(tq[p]).op = "notify"
          /\ IF tx[p].aborted
             THEN tx' = [tx EXCEPT ![p] = failed(@)]
             ELSE tx' = tx
          /\ tab' = tab
    /\ UNCHANGED <<kind, req, cr, cache, nextId, log, notCreator>>

\* COMMIT: a poisoned Transaction is rolled back instead.
DbCommit(p) ==
    /\ sent[p] > 0 /\ Head(tq[p]).op = "commit"
    /\ pop(p)
    /\ IF tx[p].failed \/ tx[p].aborted
       THEN /\ tab' = {r \in tab : r.by # p}
            /\ tx' = [tx EXCEPT ![p].state = "rolled back"]
       ELSE /\ tab' = {IF r.by = p THEN [r EXCEPT !.by = 0, !.sp = FALSE]
                       ELSE r : r \in tab}
            /\ tx' = [tx EXCEPT ![p].state = "committed"]
    /\ UNCHANGED <<kind, req, cr, cache, nextId, log, notCreator>>

NextCreator ==
    \E p \in Procs :
        \/ CreatorExecute(p)
        \/ Commit(p)
        \/ DbSelect(p)
        \/ DbCopy(p)
        \/ DbOther(p)
        \/ DbCommit(p)

CreatorInit ==
    IdleMailbox /\ InitCreator /\ IdleFetcher /\ IdleBatch
    /\ IdleUndelete /\ IdleLoop /\ IdleRun /\ IdleFlag
    /\ IdleRound /\ IdleSlots /\ IdleSort /\ IdleHeader

SpecCreator == CreatorInit /\ [][NextCreator]_vars

\* C2: a creator whose COPY failed on the constraint it was given leaves its
\* Transaction usable: the Transaction is not failed.
LostRaceKeepsTransaction ==
    \A p \in Procs : cr[p].lost => ~tx[p].failed

\* Every SAVEPOINT in the statements l is followed by a RELEASE SAVEPOINT.
released(l) ==
    \A i \in DOMAIN l :
        l[i].op = "savepoint" =>
            \E j \in DOMAIN l : j > i /\ l[j].op = "release savepoint"

sameNewFlag ==
    /\ kind = "flag_names"
    /\ req[1] = <<"a">> /\ req[2] = <<"a">>
    /\ \A p \in Procs : ~cr[p].total /\ cr[p].cerr # "other"

FlagRaceBothCommit ==
    sameNewFlag =>
        /\ \A p \in Procs : ~tx[p].failed /\ tx[p].state # "rolled back"
        /\ Cardinality({r \in tab : lower(r.name) = "a"}) <= 1
        /\ (\A p \in Procs : tx[p].state = "committed") =>
              \E r \in tab :
                  /\ lower(r.name) = "a" /\ r.by = 0
                  /\ \A p \in Procs : idOf(kind, cache[p], "a") = r.id

\* A creator that is done, saw no COPY fail, and whose Transaction committed.
completed(p) ==
    /\ cr[p].done /\ ~cr[p].lost /\ ~cr[p].total
    /\ tx[p].state = "committed"

allInterned(p) ==
    \A i \in DOMAIN req[p] : idOf(kind, cache[p], req[p][i]) # 0

\* C5 (as claimed): after such a creator the intern table has an id for
\* every name asked for, and the table has at most one row per lowercased
\* name.
InternedAndUniqueLowercase ==
    \A p \in Procs :
        completed(p) =>
            /\ allInterned(p)
            /\ \A r1, r2 \in tab :
                   lower(r1.name) = lower(r2.name) => r1 = r2

\* C5 (amended): ... and the table has at most one row per lowercased name
\* for flag_names, and at most one row per name for field_names and
\* annotation_names.
InternedAndUniqueKey ==
    \A p \in Procs :
        completed(p) =>
            /\ allInterned(p)
            /\ \A r1, r2 \in tab :
                   key(kind, r1.name) = key(kind, r2.name) => r1 = r2

InternedWitness ==
    \E p \in Procs :
        /\ completed(p)
        /\ copies(log[p]) > 0
        /\ \E r \in tab : r.by = 0 /\ r.id > 1

\* C25: the first call of execute() of a creator whose names all have a
\* non-zero id in the cache makes the creator done, calls the Transaction's
\* notify(), and enqueues no statement: the creator's statements and the
\* Transaction's queue are as they were.
CachedNamesNeedNoStatement ==
    [][\A p \in Procs :
           (cr[p] = HelperRowCreatorData /\ allInterned(p) /\ cr'[p] # cr[p])
               => /\ cr'[p].done /\ cr'[p].notified
                  /\ log'[p] = <<>>
                  /\ tq'[p] = tq[p] /\ sent'[p] = sent[p]
                  /\ ~cr'[p].sp]_vars

CachedNamesWitness ==
    \E p \in Procs :
        /\ req[p] = <<"b">> /\ cache[p]["b"] # 0
        /\ cr[p].done /\ cr[p].notified /\ log[p] = <<>>

\* C26: a creator whose COPY failed with an error that does not name its
\* constraint is done, the failed COPY is the last statement it enqueued
\* (no ROLLBACK TO SAVEPOINT, SELECT, COPY, RELEASE SAVEPOINT or NOTIFY
\* follows it), its Transaction is failed, and notify() has been called.
OtherFailureEndsCreator ==
    \A p \in Procs :
        cr[p].total =>
            /\ cr[p].done /\ cr[p].notified
            /\ tx[p].failed
            /\ log[p] # <<>> /\ log[p][Len(log[p])].op = "copy"
            /\ \A i \in DOMAIN tq[p] : tq[p][i].op = "commit"

OtherFailureWitness ==
    \E p \in Procs :
        /\ cr[p].total /\ cr[p].done /\ tx[p].failed
        /\ copies(log[p]) > 0

\* The places in the statements l where op was enqueued.
places(l, op) == {i \in DOMAIN l : l[i].op = op}

\* C27: a creator enqueues SAVEPOINT at most once and before its first
\* COPY; a creator that is done and saw a COPY succeed has enqueued RELEASE
\* SAVEPOINT and then NOTIFY, both after every COPY; NOTIFY is enqueued only
\* after a SAVEPOINT.
SavepointThenReleaseThenNotify ==
    \A p \in Procs :
        LET l == log[p]
        IN  /\ Cardinality(places(l, "savepoint")) <= 1
            /\ \A i \in places(l, "copy") :
                   \E j \in places(l, "savepoint") : j < i
            /\ (cr[p].done /\ cr[p].won) =>
                   \E i \in places(l, "release savepoint") :
                       /\ i + 1 \in places(l, "notify")
                       /\ \A j \in places(l, "copy") : j < i
            /\ \A i \in places(l, "notify") :
                   \E j \in places(l, "savepoint") : j < i

SavepointThenReleaseWitness ==
    \E p \in Procs :
        /\ cr[p].done /\ cr[p].won
        /\ places(log[p], "savepoint") # {}
        /\ places(log[p], "notify") # {}

(***************************************************************************)
(* execute() called on a creator that is done: by a Query of its own that  *)
(* completes late, or by whoever uses the creator.                         *)
(***************************************************************************)
\* How often one creator enqueues RELEASE SAVEPOINT.
MaxReleases == 2

ExecuteWhenDone(p) ==
    /\ tx[p].state = "open"
    /\ cr[p].done
    /\ LET st == execute(kind, req[p], cr[p], cache[p])
       IN  /\ Cardinality(places(log[p] \o st.q, "release savepoint"))
                <= MaxReleases
           /\ cr' = [cr EXCEPT ![p] =
                        [s |-> st.s, sres |-> st.sres, c |-> st.c,
                         cerr |-> st.cerr, sp |-> st.sp, done |-> st.done,
                         lost |-> st.lost, total |-> st.total,
                         won |-> st.won, notified |-> st.notified]]
           /\ cache' = [cache EXCEPT ![p] = st.cache]
           /\ tq' = [tq EXCEPT ![p] = @ \o st.q]
           /\ sent' = [sent EXCEPT ![p] =
                          IF st.called THEN Len(tq[p]) + st.n ELSE @]
           /\ log' = [log EXCEPT ![p] = @ \o st.q]
    /\ UNCHANGED <<kind, req, tx, tab, nextId, notCreator>>

NextCreatorAgain ==
    \/ NextCreator
    \/ \E p \in Procs : ExecuteWhenDone(p)

SpecCreatorAgain == CreatorInit /\ [][NextCreatorAgain]_vars

\* C36: over a creator's whole life RELEASE SAVEPOINT and NOTIFY are each
\* enqueued at most once, however often execute() is called once the
\* creator is done.
ReleasedAndNotifiedOnce ==
    \A p \in Procs :
        /\ Cardinality(places(log[p], "release savepoint")) <= 1
        /\ Cardinality(places(log[p], "notify")) <= 1

\* execute() is called as in CreatorExecute, any number of times; the
\* statements are not kept for the record.
CreatorRound(p) ==
    /\ tx[p].state = "open"
    /\ ~cr[p].done
    /\ cr[p].s # "sent" /\ cr[p].c # "sent"
    /\ LET st == execute(kind, req[p], cr[p], cache[p])
       IN  /\ cr' = [cr EXCEPT ![p] =
                        [s |-> st.s, sres |-> st.sres, c |-> st.c,
                         cerr |-> st.cerr, sp |-> st.sp, done |-> st.done,
                         lost |-> st.lost, total |-> st.total,
                         won |-> st.won, notified |-> st.notified]]
           /\ cache' = [cache EXCEPT ![p] = st.cache]
           /\ tq' = [tq EXCEPT ![p] = @ \o st.q]
           /\ sent' = [sent EXCEPT ![p] =
                          IF st.called THEN Len(tq[p]) + st.n ELSE @]
    /\ UNCHANGED <<kind, req, tx, tab, nextId, log, notCreator>>

NextCreatorFair ==
    \E p \in Procs :
        \/ CreatorRound(p)
        \/ Commit(p)
        \/ DbSelect(p)
        \/ DbCopy(p)
        \/ DbOther(p)
        \/ DbCommit(p)

\* CreatorRound(p) can be taken.
CreatorCalled(p) ==
    /\ tx[p].state = "open"
    /\ ~cr[p].done
    /\ cr[p].s # "sent" /\ cr[p].c # "sent"

\* Every query sent to the database completes and the owner of a
\* Transaction whose creator is done commits it; the creator is executed
\* when its query has completed, which is weak fairness of CreatorRound(p)
\* written with the condition under which it can be taken.
SpecCreatorFair ==
    /\ CreatorInit
    /\ [][NextCreatorFair]_vars
    /\ \A p \in Procs :
          /\ []<>~CreatorCalled(p) \/ []<><<CreatorRound(p)>>_vars
          /\ WF_vars(Commit(p))
          /\ WF_vars(DbSelect(p))
          /\ WF_vars(DbCopy(p))
          /\ WF_vars(DbOther(p))
          /\ WF_vars(DbCommit(p))

\* C40: a creator is done after finitely many rounds of SELECT and COPY,
\* whatever names it was asked for, when every query completes.
CreatorReachesDone == \A p \in Procs : <>cr[p].done

(***************************************************************************)
(* Fetcher (message/fetcher.cpp).                                          *)
(* A Message is held by its index in msgs; fd.messages is d->messages, the *)
(* list of indexes still to be put in a batch.  A uint that has wrapped    *)
(* below zero is held as the negative number r standing for 2^32 + r.      *)
(***************************************************************************)
batchHashSize == 1800

maxBatchSize == 32768

Types == {"Flags", "Annotations", "Addresses", "OtherHeader", "Body",
          "Trivia", "PartNumbers"}

\* The order in which Fetcher::waitForEnd lists the decoders.
DecoderOrder == <<"Flags", "Annotations", "Addresses", "OtherHeader", "Body",
                  "Trivia", "PartNumbers">>

\* The values time( 0 ) returns; the clock may stand still or be set back.
Times == {100, 101, 200}

\* Fetcher::fetch( t ): the decoders that exist after the call.
fetch(dec, t) ==
    IF t = "Body" THEN dec \cup {"Body", "PartNumbers"} ELSE dec \cup {t}

fetchAll(S) == UNION {fetch({}, t) : t \in S}

Message(uid, id) ==
    [uid |-> uid, databaseId |-> id, rfc822Size |-> 0, has |-> {}]

\* What each decoder's setDone() marks on the Message.
marks(t) ==
    CASE t = "Flags" -> {"hasFlags"}
      [] t = "Annotations" -> {"hasAnnotations"}
      [] t = "Addresses" -> {"hasAddresses"}
      [] t = "OtherHeader" -> {"hasHeaders"}
      [] t = "Body" -> {"hasBodies", "hasBytesAndLines"}
      [] t = "PartNumbers" -> {"hasBytesAndLines"}
      [] t = "Trivia" -> {}

setDoneNothing(t, m) == m

setDone(t, m) == [m EXCEPT !.has = @ \cup marks(t)]

isDone(t, m) ==
    IF t = "Trivia" THEN m.rfc822Size > 0 ELSE marks(t) \subseteq m.has

\* Every decoder of dec, in waitForEnd's order, marks m.
RECURSIVE setDoneFrom(_, _, _)
setDoneFrom(i, dec, m) ==
    IF i > Len(DecoderOrder) THEN m
    ELSE setDoneFrom(i + 1, dec,
                     IF DecoderOrder[i] \in dec
                     THEN setDone(DecoderOrder[i], m) ELSE m)

FetcherData(messages, mailbox, dec) ==
    [messages |-> messages, messagesRemaining |-> 0, batch |-> <<>>,
     batchIds |-> <<>>, owner |-> 0, mailbox |-> mailbox,
     findMessages |-> "null", state |-> "NotStarted", selector |-> <<>>,
     batchSize |-> 0, uniqueDatabaseIds |-> TRUE, lastBatchStarted |-> 0,
     decoders |-> dec, pending |-> {}, byBatch |-> FALSE,
     trivia |-> "none"]

\* An unsigned comparison a <= b, where a may have wrapped.
uintLE(a, b) == a >= 0 /\ a <= b

\* Fetcher::start: the number of data types, and the first batch size.
dataTypes(dec) ==
    Cardinality(dec \ {"PartNumbers"})
    + (IF "PartNumbers" \in dec /\ "Body" \notin dec THEN 1 ELSE 0)

firstBatchSize(dec) ==
    LET a == 1024
        b == IF "Body" \in dec THEN a \div 2 ELSE a
        c == IF "OtherHeader" \in dec THEN (b * 2) \div 3 ELSE b
    IN  IF "Addresses" \in dec THEN (c * 3) \div 4 ELSE c

\* A MessageSet made of the UIDs of the list l: ascending, each UID once.
sorted(l) ==
    LET sl == SortSeq(l, LAMBDA a, b : a < b)
        first == SelectSeq([i \in DOMAIN sl |->
                              [uid |-> sl[i],
                               new |-> i = 1 \/ sl[i] # sl[i - 1 + (IF i = 1 THEN 1 ELSE 0)]]],
                           LAMBDA e : e.new)
    IN  [i \in DOMAIN first |-> first[i].uid]

\* MessageSet::isRange.
isRange(uids) ==
    uids # <<>> /\ Len(uids) = uids[Len(uids)] - uids[1] + 1

\* prepareBatch, line 511-532: the batch size adjusted to the time the last
\* batch took (and logged as "adjusting to").
adjustBatchSizeNoMax(batchSize, last, now) ==
    LET prev == batchSize
        a == IF now = last THEN batchSize * 2
             ELSE IF now < last THEN 128
             ELSE (batchSize * 30) \div (now - last)
        b == IF a > prev * 3 THEN prev * 3 ELSE a
        c == IF b > prev + 2000 THEN prev + 2000 ELSE b
    IN  IF c < 128 THEN 128 ELSE c

adjustBatchSize(batchSize, last, now) ==
    LET prev == batchSize
        a == IF now = last THEN batchSize * 2
             ELSE IF now < last THEN 128
             ELSE (batchSize * 30) \div (now - last)
        b == IF a > prev * 3 THEN prev * 3 ELSE a
        c == IF b > prev + 2000 THEN prev + 2000 ELSE b
        e == IF c < 128 THEN 128 ELSE c
    IN  IF e > maxBatchSize THEN maxBatchSize ELSE e

\* prepareBatch, line 541-544: a batch that would leave a small rest takes
\* all that remains.
tailBatchSize(batchSize, remaining) ==
    IF uintLE(remaining, (batchSize * 5) \div 4) THEN remaining ELSE batchSize

\* d->batch[b], a list of Messages, or <<>> when the pointer is null.
bucket(d, b) == IF b \in DOMAIN d.batch THEN d.batch[b] ELSE <<>>

\* Line 560-591 without the search of the bucket for the same id.
takeMessageUnsearched(a, ms) ==
    IF a.d.messages = <<>> \/ ~(a.n < a.d.batchSize) THEN a
    ELSE LET d == a.d
             m == Head(d.messages)
             id == ms[m].databaseId
             b == id % batchHashSize
         IN  [d |-> [d EXCEPT
                       !.messages = Tail(@),
                       !.batchIds = Append(@, id),
                       !.batch = (b :> Append(bucket(d, b), m)) @@ @,
                       !.messagesRemaining = @ - 1],
              n |-> a.n + 1]

\* prepareBatch, line 560-591, one turn of the loop: the first of d->messages
\* moves to the batch, unless n distinct database ids have been taken; a.n
\* is the loop's n.
takeMessage(a, ms) ==
    IF a.d.messages = <<>> \/ ~(a.n < a.d.batchSize) THEN a
    ELSE LET d == a.d
             m == Head(d.messages)
             id == ms[m].databaseId
             b == id % batchHashSize
             old == bucket(d, b)
             dup == \E i \in DOMAIN old : ms[old[i]].databaseId = id
         IN  [d |-> [d EXCEPT
                       !.messages = Tail(@),
                       !.uniqueDatabaseIds = IF dup THEN FALSE ELSE @,
                       !.batchIds = IF dup THEN @ ELSE Append(@, id),
                       !.batch = (b :> Append(old, m)) @@ @,
                       !.messagesRemaining = @ - 1],
              n |-> IF dup THEN a.n ELSE a.n + 1]

\* Turns lo..hi of the loop, one after the other (the test on the first
\* half's result has TLC finish that half before it starts the second).
RECURSIVE takeMessages(_, _, _, _)
takeMessages(a, ms, lo, hi) ==
    IF lo > hi THEN a
    ELSE IF lo = hi THEN takeMessage(a, ms)
    ELSE LET first == takeMessages(a, ms, lo, (lo + hi) \div 2)
         IN  IF first.n >= 0
             THEN takeMessages(first, ms, (lo + hi) \div 2 + 1, hi)
             ELSE first

\* Fetcher::prepareBatch.
prepareBatch(d, ms, now) ==
    LET adjusted == IF d.lastBatchStarted # 0
                    THEN adjustBatchSize(d.batchSize, d.lastBatchStarted, now)
                    ELSE d.batchSize
        d1 == [d EXCEPT
                 !.batchSize = tailBatchSize(adjusted, d.messagesRemaining),
                 !.lastBatchStarted = now,
                 !.uniqueDatabaseIds = TRUE,
                 !.batch = <<>>,
                 !.batchIds = <<>>]
    IN  takeMessages([d |-> d1, n |-> 0], ms, 1, Len(d1.messages)).d

\* Fetcher::makeQueries: the decoders that get a new query.  Flags and
\* annotations need a mailbox; the body query also serves the part numbers.
makeQueries(d) ==
    [d EXCEPT
       !.pending = {t \in d.decoders :
                      /\ t \in {"Flags", "Annotations"} => d.mailbox
                      /\ t = "PartNumbers" => "Body" \notin d.decoders},
       !.byBatch = d.batchSize # 0]

\* Fetcher::start.
start(d, ms, now) ==
    IF dataTypes(d.decoders) < 1 THEN d
    ELSE IF Len(d.messages) = 1 /\ ms[d.messages[1]].databaseId # 0
    THEN [makeQueries(prepareBatch([d EXCEPT !.batchSize = 1,
                                             !.messagesRemaining = 1],
                                   ms, now))
          EXCEPT !.state = "Fetching"]
    ELSE LET n == dataTypes(d.decoders)
             messages == sorted([i \in DOMAIN d.messages |->
                                    ms[d.messages[i]].uid])
             expected == Len(messages)
             simple == \/ n = 1
                       \/ isRange(messages) /\ expected * n < 2000
                       \/ expected * n < 1000
             d1 == [d EXCEPT !.selector = messages]
         IN  IF simple
             THEN [makeQueries(d1) EXCEPT !.state = "Fetching"]
             ELSE [d1 EXCEPT !.batchSize = firstBatchSize(d.decoders),
                             !.findMessages = "sent",
                             !.state = "FindingMessages"]

\* The rows of the findMessages query, by ascending uid: what the database
\* holds for the UIDs of the selector.
\*   "all"    a row for every UID of the working set;
\*   "fewer"  a row for the lowest UID only;
\*   "copies" the two lowest UIDs are copies of one message, whose id shares
\*            its bucket with the third's;
\*   "more"   also rows for two UIDs that are not in the working set.
FindScenarios == {"all", "fewer", "copies", "more"}

findRows(scn, uids) ==
    LET lo == uids[1]
        hi == uids[Len(uids)]
        su == IF scn = "fewer" THEN <<lo>>
              ELSE IF scn = "more" /\ uids[Len(uids) - 1] < hi - 1
              THEN SubSeq(uids, 1, Len(uids) - 1) \o <<hi - 1, hi, hi + 1>>
              ELSE IF scn = "more" THEN Append(uids, hi + 1)
              ELSE uids
    IN  [i \in DOMAIN su |->
            [uid |-> su[i],
             message |-> IF scn = "copies"
                         THEN (IF i <= 2 THEN batchHashSize + 1
                               ELSE IF i = 3 THEN 1
                               ELSE su[i] + 1)
                         ELSE su[i] + 1]]

\* while ( m && m->uid() < uid ) ++m, for an iterator m on d->messages.
RECURSIVE skipTo(_, _, _)
skipTo(st, m, uid) ==
    IF m <= Len(st.d.messages) /\ st.ms[st.d.messages[m]].uid < uid
    THEN skipTo(st, m + 1, uid) ELSE m

\* findMessages, line 409-421, for one row: a.m is the iterator m.
foundRow(a, row) ==
    LET m1 == skipTo(a, a.m, row.uid)
    IN  [d |-> [a.d EXCEPT !.messagesRemaining = @ + 1],
         ms |-> IF m1 <= Len(a.d.messages)
                THEN [a.ms EXCEPT ![a.d.messages[m1]].databaseId =
                                      row.message]
                ELSE a.ms,
         m |-> m1]

\* Rows lo..hi of rs, one after the other.
RECURSIVE readFound(_, _, _, _)
readFound(a, rs, lo, hi) ==
    IF lo > hi THEN a
    ELSE IF lo = hi THEN foundRow(a, rs[lo])
    ELSE LET first == readFound(a, rs, lo, (lo + hi) \div 2)
         IN  IF first.m > 0
             THEN readFound(first, rs, (lo + hi) \div 2 + 1, hi)
             ELSE first

\* Fetcher::findMessages.
findMessages(st, scn, now) ==
    IF st.d.findMessages # "done" THEN st
    ELSE LET rs == findRows(scn, st.d.selector)
             st1 == readFound([d |-> st.d, ms |-> st.ms, m |-> 1],
                              rs, 1, Len(rs))
             d1 == [st1.d EXCEPT !.state = "Fetching"]
         IN  [d |-> makeQueries(prepareBatch(d1, st1.ms, now)),
              ms |-> st1.ms]

\* waitForEnd, line 461-475: the messages of the batch are marked.
batchMessages(d) ==
    UNION {{d.batch[b][i] : i \in DOMAIN d.batch[b]} : b \in DOMAIN d.batch}

\* Fetcher::waitForEnd.
waitForEnd(st, now) ==
    IF st.d.pending # {} THEN st
    ELSE LET marked == IF st.d.batchSize # 0
                       THEN batchMessages(st.d)
                       ELSE {st.d.messages[i] : i \in DOMAIN st.d.messages}
             ms1 == [i \in DOMAIN st.ms |->
                        IF i \in marked
                        THEN setDoneFrom(1, st.d.decoders, st.ms[i])
                        ELSE st.ms[i]]
             d1 == IF st.d.batchSize # 0 THEN st.d
                   ELSE [st.d EXCEPT !.messages = <<>>]
         IN  IF d1.messages = <<>>
             THEN [d |-> [d1 EXCEPT !.state = "Done", !.owner = @ + 1],
                   ms |-> ms1]
             ELSE [d |-> makeQueries(prepareBatch(d1, ms1, now)),
                   ms |-> ms1]

\* Fetcher::execute: the state's handler runs until the state stays.
RECURSIVE fetcherExecute(_, _, _)
fetcherExecute(st, scn, now) ==
    LET next == CASE st.d.state = "NotStarted" ->
                         [st EXCEPT !.d = start(st.d, st.ms, now)]
                  [] st.d.state = "FindingMessages" ->
                         findMessages(st, scn, now)
                  [] st.d.state = "Fetching" -> waitForEnd(st, now)
                  [] st.d.state = "Done" -> st
    IN  IF next.d.state # st.d.state
        THEN fetcherExecute(next, scn, now) ELSE next

\* The rows of the trivia query (a message's size is told from its id or
\* uid): one for every message the database holds
\* (db.trivia = "all") or none at all; with a "message" column when the
\* query was made for a batch, with a "uid" column otherwise.
triviaRows(d) ==
    IF db.trivia = "none" THEN <<>>
    ELSE IF d.byBatch
    THEN LET ids == SelectSeq(d.batchIds, LAMBDA id : id # 0)
         IN  [i \in DOMAIN ids |->
                 [message |-> ids[i], rfc822size |-> 1000 + ids[i]]]
    ELSE [i \in DOMAIN d.selector |->
             [uid |-> d.selector[i], rfc822size |-> 1000 + d.selector[i]]]

\* TriviaDecoder::decode.
decode(m, r) == [m EXCEPT !.rfc822Size = r.rfc822size]

\* Decoder::execute, line 878-887, for one row: the row goes to the Message
\* the iterator a.mit stops at.
decodeByUid(a, row) ==
    LET m1 == skipTo(a, a.mit, row.uid)
    IN  [d |-> a.d,
         ms |-> IF /\ m1 <= Len(a.d.messages)
                   /\ ~isDone("Trivia", a.ms[a.d.messages[m1]])
                THEN [a.ms EXCEPT ![a.d.messages[m1]] = decode(@, row)]
                ELSE a.ms,
         mit |-> m1]

\* if ( !isDone( m ) ) decode( m, r ), for every Message of the set hit.
RECURSIVE decodeEach(_, _, _)
decodeEach(ms, hit, r) ==
    IF hit = {} THEN ms
    ELSE LET j == CHOOSE x \in hit : TRUE
         IN  decodeEach(IF isDone("Trivia", ms[j]) THEN ms
                        ELSE [ms EXCEPT ![j] = decode(@, r)],
                        hit \ {j}, r)

\* Line 889-909 without the comparison of the ids: the row goes to the
\* Messages of its bucket.
decodeByBucket(a, row) ==
    LET id == IF "message" \in DOMAIN row THEN row.message ELSE 0
        l == bucket(a.d, id % batchHashSize)
        hit == IF a.d.uniqueDatabaseIds /\ l # <<>> THEN {1} ELSE DOMAIN l
    IN  [a EXCEPT !.ms = decodeEach(@, {l[i] : i \in hit}, row)]

\* Decoder::execute, line 889-909, for one row: the row goes to the
\* Messages of its bucket that have its id.  A row without a "message"
\* column reads as id 0.
decodeById(a, row) ==
    LET id == IF "message" \in DOMAIN row THEN row.message ELSE 0
        l == bucket(a.d, id % batchHashSize)
        same == {i \in DOMAIN l : a.ms[l[i]].databaseId = id}
        hit == IF a.d.uniqueDatabaseIds /\ same # {}
               THEN {CHOOSE i \in same : \A k \in same : i <= k}
               ELSE same
    IN  [a EXCEPT !.ms = decodeEach(@, {l[i] : i \in hit}, row)]

\* Rows lo..hi of rs, one after the other.
RECURSIVE decodeRows(_, _, _, _, _)
decodeRows(a, mode, rs, lo, hi) ==
    IF lo > hi THEN a
    ELSE IF lo = hi
    THEN (IF mode = "findByUid" THEN decodeByUid(a, rs[lo])
          ELSE decodeById(a, rs[lo]))
    ELSE LET first == decodeRows(a, mode, rs, lo, (lo + hi) \div 2)
         IN  IF first.mit > 0
             THEN decodeRows(first, mode, rs, (lo + hi) \div 2 + 1, hi)
             ELSE first

\* Decoder::execute for the trivia decoder, all rows of its query at once.
triviaExecute(st) ==
    LET rs == triviaRows(st.d)
        mode == IF rs # <<>> /\ st.d.trivia = "none"
                THEN (IF st.d.byBatch THEN "findById" ELSE "findByUid")
                ELSE st.d.trivia
        a == decodeRows([d |-> [st.d EXCEPT !.trivia = mode], ms |-> st.ms,
                         mit |-> 1],
                        mode, rs, 1, Len(rs))
    IN  [d |-> a.d, ms |-> a.ms]

\* The working sets: one message known by its database id (and no mailbox),
\* the same with its size known already, none, three with a gap, and a long
\* list with a gap.
LongUids == (1..166) \cup {168}

WorkingSets ==
    {[ms |-> <<Message(0, 7)>>, mailbox |-> FALSE],
     [ms |-> <<[Message(0, 7) EXCEPT !.rfc822Size = 500]>>,
      mailbox |-> FALSE],
     [ms |-> <<>>, mailbox |-> TRUE],
     [ms |-> <<Message(1, 0), Message(2, 0), Message(4, 0)>>,
      mailbox |-> TRUE],
     [ms |-> [i \in 1..Cardinality(LongUids) |->
                 Message(IF i \in LongUids THEN i ELSE i + 1, 0)],
      mailbox |-> TRUE]}

\* The sets of data classes a caller asks for.
Wanted == {{}, {"Trivia"}, {"Flags", "Trivia"}, {"Body"}, Types}

InitFetcher ==
    \E ws \in WorkingSets, w \in Wanted :
        /\ msgs = ws.ms
        /\ fd = FetcherData([i \in DOMAIN ws.ms |-> i], ws.mailbox,
                            fetchAll(w))
        /\ asked = w
        /\ db \in [find : FindScenarios, trivia : {"all", "none"}]

\* The owner calls execute() on the new Fetcher.
FetcherStart ==
    /\ fd.state = "NotStarted"
    /\ \E now \in Times :
         LET st == fetcherExecute([d |-> fd, ms |-> msgs], db.find, now)
         IN  fd' = st.d /\ msgs' = st.ms
    /\ UNCHANGED <<db, asked, notFetcher>>

\* The findMessages query completes and notifies the Fetcher.
FindMessagesDone ==
    /\ fd.state = "FindingMessages"
    /\ fd.findMessages = "sent"
    /\ \E now \in Times :
         LET st == fetcherExecute([d |-> [fd EXCEPT !.findMessages = "done"],
                                   ms |-> msgs], db.find, now)
         IN  fd' = st.d /\ msgs' = st.ms
    /\ UNCHANGED <<db, asked, notFetcher>>

\* Decoder::execute: the query of decoder t delivers its rows and is done,
\* and the decoder calls Fetcher::execute.
DecoderExecute(t) ==
    /\ fd.state = "Fetching"
    /\ t \in fd.pending
    /\ \E now \in Times :
         LET st0 == [d |-> fd, ms |-> msgs]
             st1 == IF t = "Trivia" THEN triviaExecute(st0) ELSE st0
             st2 == [st1 EXCEPT !.d.pending = @ \ {t}]
             st == fetcherExecute(st2, db.find, now)
         IN  fd' = st.d /\ msgs' = st.ms
    /\ UNCHANGED <<db, asked, notFetcher>>

NextFetcher ==
    \/ FetcherStart
    \/ FindMessagesDone
    \/ \E t \in Types : DecoderExecute(t)

FetcherInit ==
    IdleMailbox /\ IdleCreator /\ InitFetcher /\ IdleBatch
    /\ IdleUndelete /\ IdleLoop /\ IdleRun /\ IdleFlag
    /\ IdleRound /\ IdleSlots /\ IdleSort /\ IdleHeader

SpecFetch == FetcherInit /\ [][NextFetcher]_vars

\* The fetched-state marks a Message shows; "trivia" is the trivia
\* decoder's test of being done.
fetched(m) == m.has \cup (IF m.rfc822Size > 0 THEN {"trivia"} ELSE {})

\* The marks the claim names for each data class.
claimedMarks(t) ==
    CASE t = "Flags" -> {"hasFlags"}
      [] t = "Annotations" -> {"hasAnnotations"}
      [] t = "Addresses" -> {"hasAddresses"}
      [] t = "OtherHeader" -> {"hasHeaders"}
      [] t = "Body" -> {"hasBodies", "hasBytesAndLines"}
      [] t = "PartNumbers" -> {"hasBytesAndLines"}
      [] t = "Trivia" -> {"trivia"}

\* C6 (as claimed): when the Fetcher is Done, every Message of its working
\* set has the mark of every data class asked for, the trivia mark included.
DoneMeansAllFetched ==
    fd.state = "Done" =>
        \A i \in DOMAIN msgs : \A t \in asked :
            claimedMarks(t) \subseteq fetched(msgs[i])

\* C6 (amended): when the Fetcher is Done, every Message of its working set
\* has the has* flag of every data class asked for; asking for Trivia
\* promises no mark.
DoneMeansFlagsFetched ==
    fd.state = "Done" =>
        \A i \in DOMAIN msgs : \A t \in asked \ {"Trivia"} :
            claimedMarks(t) \subseteq fetched(msgs[i])

\* A batched job has finished: the pre-scan ran, and all seven classes were
\* asked for.
DoneBatchedWitness ==
    /\ fd.state = "Done"
    /\ fd.findMessages = "done"
    /\ asked = Types
    /\ Len(msgs) > 3
    /\ \A i \in DOMAIN msgs : "hasFlags" \in msgs[i].has

\* The database ids of the Messages of the batch.
batchDatabaseIds == {msgs[i].databaseId : i \in batchMessages(fd)}

\* C31: in a batch that prepareBatch built, batchIds holds each database id
\* of the batch's Messages once and no other, every Message of the batch is
\* in the bucket of its database id mod batchHashSize, and
\* uniqueDatabaseIds is true exactly when the Messages of the batch have
\* different database ids.
BatchIdsAreDistinct ==
    fd.batchSize # 0 =>
        /\ {fd.batchIds[i] : i \in DOMAIN fd.batchIds} = batchDatabaseIds
        /\ Len(fd.batchIds) = Cardinality(batchDatabaseIds)
        /\ \A b \in DOMAIN fd.batch : \A i \in DOMAIN fd.batch[b] :
               msgs[fd.batch[b][i]].databaseId % batchHashSize = b
        /\ fd.uniqueDatabaseIds <=>
               Cardinality(batchDatabaseIds) = Cardinality(batchMessages(fd))

\* A batch in which two Messages are copies of one message, and a third
\* shares their bucket.
BatchOfCopiesWitness ==
    /\ fd.batchSize # 0
    /\ ~fd.uniqueDatabaseIds
    /\ Len(fd.batchIds) < Cardinality(batchMessages(fd))
    /\ \E b \in DOMAIN fd.batch :
           Cardinality({msgs[fd.batch[b][i]].databaseId :
                           i \in DOMAIN fd.batch[b]}) > 1

\* The step is the trivia decoder's execute(), and its rows have a
\* "message" column.
triviaById ==
    /\ fd.state = "Fetching"
    /\ "Trivia" \in fd.pending
    /\ "Trivia" \notin fd'.pending \/ fd.pending = {"Trivia"}
    /\ fd.byBatch
    /\ fd.trivia # "findByUid"

\* C32: when the trivia decoder reads its rows by database id, a Message
\* gets a row's value exactly if it is in the batch, the row has its
\* database id, and it was not done before; every other Message, also one
\* of the same bucket and one that was done, keeps what it had.
RowsGoToTheirMessages ==
    [][triviaById =>
          \A i \in DOMAIN msgs :
              LET rs == triviaRows(fd)
                  mine == {k \in DOMAIN rs :
                              rs[k].message = msgs[i].databaseId}
              IN  IF /\ i \in batchMessages(fd)
                     /\ mine # {}
                     /\ ~isDone("Trivia", msgs[i])
                  THEN \E k \in mine :
                          msgs'[i].rfc822Size = rs[k].rfc822size
                  ELSE msgs'[i].rfc822Size = msgs[i].rfc822Size]_vars

\* Rows were read by id for a batch with copies, and both copies have the
\* row's value.
CopiesDecodedWitness ==
    /\ fd.trivia = "findById"
    /\ ~fd.uniqueDatabaseIds
    /\ \E i, j \in batchMessages(fd) :
           /\ i # j /\ msgs[i].databaseId = msgs[j].databaseId
           /\ msgs[i].rfc822Size > 0 /\ msgs[j].rfc822Size > 0

\* execute() is called on every Fetcher, and every query a Fetcher issues
\* is answered: a Fetcher that has something to fetch does not stay in
\* NotStarted for ever and its findMessages query does not stay unanswered
\* for ever (the weak fairness of FetcherStart and of FindMessagesDone,
\* written with the conditions under which they can be taken), and the
\* query of each of its decoders is answered.
SpecFetchFair ==
    /\ SpecFetch
    /\ []<>~(fd.state = "NotStarted" /\ dataTypes(fd.decoders) >= 1)
    /\ []<>~(fd.state = "FindingMessages" /\ fd.findMessages = "sent")
    /\ \A t \in Types : WF_vars(DecoderExecute(t))

\* C37: every Fetcher reaches state Done, for every set of data classes
\* and every working set, and has then executed its owner once.
FetcherReachesDone == <>(fd.state = "Done" /\ fd.owner = 1)

(***************************************************************************)
(* The Fetcher's batch sizes on a long working set.  The Messages are held *)
(* as a count (bt.messages is the length of d->messages) and all have      *)
(* different database ids, so that a batch of size n takes n of them.      *)
(***************************************************************************)
\* Lengths of the working set, and what is asked for.
BatchCounts == {2000, 290000}

BatchWanted == {{"Flags", "Trivia"}, Types}

\* The rows the pre-scan can return for a working set of m messages.
FoundCounts(m) == {1, m, m + 100}

\* A batch time other than zero or one second: a slow batch, or a clock
\* that was set back.
jump(last, now) == last # 0 /\ (now < last \/ now > last + 1)

\* Fetcher::prepareBatch on the counts; bt.logged is what it logs, and
\* bt.built keeps, for the record, what the call found and did: the
\* messagesRemaining it found, the size chosen from the batch time, and the
\* number of messages it moved into the batch.
prepareBatchCounts(b, now) ==
    LET adjusted == IF b.lastBatchStarted # 0
                    THEN adjustBatchSize(b.batchSize, b.lastBatchStarted, now)
                    ELSE b.batchSize
        size == tailBatchSize(adjusted, b.messagesRemaining)
        taken == IF b.messages < size THEN b.messages ELSE size
    IN  [b EXCEPT
           !.batchSize = size,
           !.lastBatchStarted = now,
           !.messages = @ - taken,
           !.messagesRemaining = @ - taken,
           !.logged = IF b.lastBatchStarted # 0
                      THEN [prev |-> b.batchSize, adjusted |-> adjusted]
                      ELSE @,
           !.built = [remaining |-> b.messagesRemaining,
                      chosen |-> adjusted, taken |-> taken],
           !.jumps = IF jump(b.lastBatchStarted, now) THEN @ + 1 ELSE @]

\* Fetcher::start has chosen the two-step way and sent the pre-scan.
InitBatch ==
    \E m \in BatchCounts, w \in BatchWanted :
        bt = [state |-> "FindingMessages", messages |-> m,
              messagesRemaining |-> 0,
              batchSize |-> firstBatchSize(fetchAll(w)),
              lastBatchStarted |-> 0, logged |-> <<>>, built |-> <<>>,
              jumps |-> 0]

\* Fetcher::findMessages: the pre-scan has returned r rows.
BatchFindMessages ==
    /\ bt.state = "FindingMessages"
    /\ \E r \in FoundCounts(bt.messages), now \in Times :
         bt' = prepareBatchCounts([bt EXCEPT !.messagesRemaining = r,
                                             !.state = "Fetching"], now)
    /\ UNCHANGED notBatch

\* Fetcher::waitForEnd, once every decoder's query is done.
BatchWaitForEnd ==
    /\ bt.state = "Fetching"
    /\ LET b == IF bt.batchSize # 0 THEN bt ELSE [bt EXCEPT !.messages = 0]
       IN  IF b.messages = 0
           THEN bt' = [b EXCEPT !.state = "Done"]
           ELSE \E now \in Times :
                   /\ jump(b.lastBatchStarted, now) => b.jumps < MaxJumps
                   /\ bt' = prepareBatchCounts(b, now)
    /\ UNCHANGED notBatch

NextBatch == BatchFindMessages \/ BatchWaitForEnd

BatchInit ==
    IdleMailbox /\ IdleCreator /\ IdleFetcher /\ InitBatch
    /\ IdleUndelete /\ IdleLoop /\ IdleRun /\ IdleFlag
    /\ IdleRound /\ IdleSlots /\ IdleSort /\ IdleHeader

SpecBatch == BatchInit /\ [][NextBatch]_vars

min(a, b) == IF a < b THEN a ELSE b

\* C7 (as claimed): a batch is never built with a size above maxBatchSize,
\* and a size adjusted to the batch time is at least 128 and at most
\* min(prev*3, prev+2000).
BatchSizeWithinMax ==
    /\ bt.state # "FindingMessages" => bt.batchSize <= maxBatchSize
    /\ bt.logged # <<>> =>
          /\ bt.logged.adjusted >= 128
          /\ bt.logged.adjusted <= min(bt.logged.prev * 3,
                                       bt.logged.prev + 2000)

\* C7 (amended): a size adjusted to the batch time is at least 128, at most
\* maxBatchSize, and above min(prev*3, prev+2000) only when it is 128; a
\* batch is built with that size or, when no more than 5/4 of it remain,
\* with the number that remain, so never with more than maxBatchSize*5/4.
BatchSizeWithinTail ==
    /\ bt.state # "FindingMessages" =>
          bt.batchSize <= (maxBatchSize * 5) \div 4
    /\ bt.logged # <<>> =>
          /\ bt.logged.adjusted >= 128
          /\ bt.logged.adjusted <= maxBatchSize
          /\ \/ bt.logged.adjusted = 128
             \/ bt.logged.adjusted <= min(bt.logged.prev * 3,
                                          bt.logged.prev + 2000)
          /\ bt.state # "FindingMessages" =>
                \/ bt.batchSize = bt.logged.adjusted
                \/ bt.batchSize <= (bt.logged.adjusted * 5) \div 4

\* The adjusted size has reached maxBatchSize, from a smaller one.
BatchSizeAtMaxWitness ==
    /\ bt.logged # <<>>
    /\ bt.logged.adjusted = maxBatchSize
    /\ bt.logged.prev < maxBatchSize

\* prepareBatch found no more than 5/4 of the chosen size remaining.
lastBatch(b) == uintLE(b.built.remaining, (b.built.chosen * 5) \div 4)

\* C30: after a call of prepareBatch that found at most 5/4 of the chosen
\* batch size remaining, the Fetcher's queue of messages is empty; after any
\* other call the batch holds at most batchSize messages (each with its own
\* database id), and messagesRemaining is what it was less the number of
\* messages moved, and not below zero.
LastBatchTakesAll ==
    bt.built # <<>> =>
        IF lastBatch(bt)
        THEN bt.messages = 0
        ELSE /\ bt.built.taken <= bt.batchSize
             /\ bt.messagesRemaining = bt.built.remaining - bt.built.taken
             /\ bt.messagesRemaining >= 0

(***************************************************************************)
(* The undelete command, src/aox/undelete.cpp.  Two commands run against   *)
(* one mailbox, each in its own Transaction; the second process may        *)
(* instead be a delivery, which assigns the mailbox's next UID under the   *)
(* same row lock.  The database holds the mailbox's row, mailbox_messages  *)
(* and deleted_messages.  mailbox_messages is held without its key, so     *)
(* that a UID assigned twice shows as two rows; the field "by" of a row    *)
(* records who inserted it and is not a column.                            *)
(***************************************************************************)
UProcs == {1, 2}

Options == [n : BOOLEAN, v : BOOLEAN]

\* The UIDs the selector on the command line asks for; 5 was never deleted.
Selectors == {{1}, {2}, {1, 2}, {5}}

\* A statement: its kind, its number argument and its uid-set argument.
Q(op, n, s) == [op |-> op, n |-> n, s |-> s]

\* Mailbox::create( t, 0 ) on a Mailbox that has an id: the statements it
\* enqueues, none (it returns 0) unless the Mailbox object is deleted().
create(del) ==
    IF del
    THEN <<Q("update mailboxes set deleted='f',owner=null", 0, {}),
           Q("MailboxReader", 0, {})>>
    ELSE <<>>

\* d->usernames, enqueued when -v is given.
usernames(v) == IF v THEN <<Q("select users", 0, {})>> ELSE <<>>

\* d->find, the Selector's query on deleted_messages.
findQuery(sel) == Q("find", 0, sel)

\* d->uidnext.
uidnextQuery == Q("select uidnext, nextmodseq for update", 0, {})

\* UndeleteData after state 0 and 1: the options, the selector, the Mailbox
\* object as Mailbox::setup loaded it; and the process's database session.
UndeleteData(k, o, sel, row) ==
    [ kind |-> k, state |-> 2, ended |-> "no", n |-> o.n, v |-> o.v, sel |-> sel,
      mdeleted |-> row.deleted, recreated |-> FALSE,
      queue |-> <<>>, sent |-> 0, tstate |-> "none", failed |-> FALSE,
      work |-> [touched |-> FALSE, row |-> row, ins |-> {}, del |-> {}],
      seq |-> 0, found |-> {}, uidnext |-> 0, modseq |-> 0, k |-> 0 ]

\* Everything the Transaction was given has been executed.
done(d) == d.sent = Len(d.queue)

\* execute(), state 2.
state2(d) ==
    [d EXCEPT !.queue = create(d.mdeleted) \o usernames(d.v)
                          \o <<findQuery(d.sel), uidnextQuery>>,
              !.recreated = d.mdeleted,
              !.tstate = "open",
              !.state = 3]

\* A sequence that starts at 1 whatever uidnext is.
createSequenceAtOne(uidnext) == Q("create temporary sequence s", 1, {})

\* "create temporary sequence s start <uidnext>", line 169-171.
createSequence(uidnext) == Q("create temporary sequence s", uidnext, {})

\* A command that commits whatever its options are.
endTransactionCommit(n) == Q("commit", 0, {})

\* The end of state 3, line 200-206: rollback with -n, commit without.
endTransaction(n) == IF n THEN Q("rollback", 0, {}) ELSE Q("commit", 0, {})

\* execute(), state 3, once d->uidnext is done: the results are read, and
\* either error() ends the process (ended) or the rest of the Transaction is
\* enqueued.
state3(d) ==
    LET uidnext == d.uidnext
        modseq == d.modseq
        s == d.found
    IN IF s = {}
       THEN [d EXCEPT !.ended = "error"]
       ELSE [d EXCEPT
               !.queue = @ \o
                 << createSequence(uidnext),
                    Q("insert into mailbox_messages", modseq, s),
                    Q("delete from deleted_messages", 0, s),
                    Q("update mailboxes set uidnext=nextval", modseq + 1, {}),
                    Q("drop sequence s", 0, {}),
                    Q("refreshMailboxes", 0, {}),
                    endTransaction(d.n) >>,
               !.state = 4]

\* execute(), state 4, once the Transaction is done.
state4(d) ==
    IF d.failed
    THEN [d EXCEPT !.ended = "error"]
    ELSE [d EXCEPT !.ended = "finish"]

(***************************************************************************)
(* The database, as the server sees one session.  Statements of a session  *)
(* run in order; each sees what is committed when it runs, and what its    *)
(* own transaction has done (READ COMMITTED).  UPDATE and SELECT FOR       *)
(* UPDATE of the mailbox's row wait for the row lock and hold it until the *)
(* transaction ends.                                                       *)
(***************************************************************************)
needsLock(q) ==
    q.op \in { "update mailboxes set deleted='f',owner=null",
               "select uidnext, nextmodseq for update",
               "update mailboxes set uidnext=nextval" }

endsTransaction(q) == q.op \in {"commit", "rollback"}

viewRow(d) == IF d.work.touched THEN d.work.row ELSE base.row

viewDeleted(d) == {r \in base.dm : r.uid \notin d.work.del}

\* The rows of deleted_messages an INSERT ... SELECT or DELETE matches.
matched(d, q) ==
    IF q.op = "insert into mailbox_messages"
    THEN {r \in viewDeleted(d) : r.uid \in q.s}
    ELSE {}

\* The ways nextval('s') can number the rows the INSERT selects.
numberings(d, q) ==
    LET rs == matched(d, q)
    IN {f \in [rs -> d.seq .. (d.seq + Cardinality(rs) - 1)] :
           \A a, b \in rs : f[a] = f[b] => a = b}

\* The session of process p after statement q, the INSERT numbering its
\* rows by f.
dbApply(p, d, q, f) ==
    LET row == viewRow(d)
        e == [d EXCEPT !.sent = @ + 1]
    IN CASE q.op = "update mailboxes set deleted='f',owner=null" ->
              [e EXCEPT !.work.touched = TRUE,
                        !.work.row = [row EXCEPT !.deleted = FALSE,
                                                 !.owner = 0]]
         [] q.op = "find" ->
              [e EXCEPT !.found = {r.uid : r \in {x \in viewDeleted(d) :
                                                     x.uid \in q.s}}]
         [] q.op = "select uidnext, nextmodseq for update" ->
              [e EXCEPT !.uidnext = row.uidnext, !.modseq = row.nextmodseq]
         [] q.op = "create temporary sequence s" ->
              [e EXCEPT !.seq = q.n]
         [] q.op = "insert into mailbox_messages" ->
              [e EXCEPT !.work.ins = @ \cup
                           {[uid |-> f[r], message |-> r.message, by |-> p] :
                               r \in matched(d, q)},
                        !.k = Cardinality(matched(d, q)),
                        !.seq = @ + Cardinality(matched(d, q))]
         [] q.op = "delete from deleted_messages" ->
              [e EXCEPT !.work.del = @ \cup q.s]
         [] q.op = "update mailboxes set uidnext=nextval" ->
              [e EXCEPT !.work.touched = TRUE,
                        !.work.row = [row EXCEPT !.uidnext = d.seq,
                                                 !.nextmodseq = q.n],
                        !.seq = @ + 1]
         [] q.op = "drop sequence s" ->
              [e EXCEPT !.seq = 0]
         [] q.op = "commit" ->
              [e EXCEPT !.tstate = "committed"]
         [] q.op = "rollback" ->
              [e EXCEPT !.tstate = "rolledback"]
         [] OTHER -> e

\* What is committed once the transaction of session d commits.
committed(d) ==
    [ row |-> viewRow(d),
      mm |-> base.mm \cup d.work.ins,
      dm |-> viewDeleted(d) ]

\* The server runs the next statement of process p's Transaction.
DbExecute(p) ==
    /\ ud[p].kind = "undelete"
    /\ ud[p].tstate = "open"
    /\ ~done(ud[p])
    /\ LET d == ud[p]
           q == d.queue[d.sent + 1]
       IN /\ needsLock(q) => rowlock \in {0, p}
          /\ \E f \in numberings(d, q) :
                ud' = [ud EXCEPT ![p] = dbApply(p, d, q, f)]
          /\ base' = IF q.op = "commit" THEN committed(d) ELSE base
          /\ rowlock' = IF endsTransaction(q)
                        THEN (IF rowlock = p THEN 0 ELSE rowlock)
                        ELSE IF needsLock(q) THEN p ELSE rowlock
    /\ UNCHANGED notUndelete

\* The server notices that a process with an open transaction has exited,
\* and rolls the transaction back.
DbDisconnect(p) ==
    /\ ud[p].kind = "undelete"
    /\ ud[p].ended = "error"
    /\ ud[p].tstate = "open"
    /\ done(ud[p])
    /\ ud' = [ud EXCEPT ![p].tstate = "rolledback"]
    /\ rowlock' = IF rowlock = p THEN 0 ELSE rowlock
    /\ UNCHANGED <<base, notUndelete>>

UndeleteState2(p) ==
    /\ ud[p].kind = "undelete"
    /\ ud[p].state = 2 /\ ud[p].ended = "no"
    /\ ud' = [ud EXCEPT ![p] = state2(@)]
    /\ UNCHANGED <<base, rowlock, notUndelete>>

UndeleteState3(p) ==
    /\ ud[p].kind = "undelete"
    /\ ud[p].state = 3 /\ ud[p].ended = "no"
    /\ done(ud[p])
    /\ ud' = [ud EXCEPT ![p] = state3(@)]
    /\ UNCHANGED <<base, rowlock, notUndelete>>

UndeleteState4(p) ==
    /\ ud[p].kind = "undelete"
    /\ ud[p].state = 4 /\ ud[p].ended = "no"
    /\ done(ud[p])
    /\ ud' = [ud EXCEPT ![p] = state4(@)]
    /\ UNCHANGED <<base, rowlock, notUndelete>>

\* A delivery into the mailbox: it reads uidnext under the row lock ...
DeliverBegin(p) ==
    /\ ud[p].kind = "deliver"
    /\ ud[p].state = 2
    /\ rowlock = 0
    /\ rowlock' = p
    /\ ud' = [ud EXCEPT ![p].uidnext = base.row.uidnext,
                        ![p].modseq = base.row.nextmodseq,
                        ![p].tstate = "open",
                        ![p].state = 3]
    /\ UNCHANGED <<base, notUndelete>>

\* ... and inserts its message with that UID, steps uidnext and commits.
DeliverCommit(p) ==
    /\ ud[p].kind = "deliver"
    /\ ud[p].state = 3
    /\ base' = [base EXCEPT
                  !.mm = @ \cup {[uid |-> ud[p].uidnext, message |-> 20,
                                  by |-> p]},
                  !.row.uidnext = ud[p].uidnext + 1,
                  !.row.nextmodseq = ud[p].modseq + 1]
    /\ rowlock' = 0
    /\ ud' = [ud EXCEPT ![p].k = 1, ![p].tstate = "committed",
                        ![p].state = 4, ![p].ended = "finish"]
    /\ UNCHANGED notUndelete

InitUndelete ==
    \E del \in BOOLEAN, k2 \in {"undelete", "deliver"},
       o1 \in Options, o2 \in Options, s1 \in Selectors, s2 \in Selectors :
        LET row == [deleted |-> del, owner |-> IF del THEN 0 ELSE 1,
                    uidnext |-> 4, nextmodseq |-> 7]
        IN /\ k2 = "deliver" => ~del /\ o2 = o1 /\ s2 = s1
           /\ base = [ row |-> row,
                       mm |-> IF del THEN {}
                              ELSE {[uid |-> 3, message |-> 13, by |-> 0]},
                       dm |-> {[uid |-> 1, message |-> 11],
                               [uid |-> 2, message |-> 12]} ]
           /\ rowlock = 0
           /\ ud = [p \in UProcs |->
                      IF p = 1 THEN UndeleteData("undelete", o1, s1, row)
                      ELSE UndeleteData(k2, o2, s2, row)]

NextUndelete ==
    \E p \in UProcs :
        \/ UndeleteState2(p)
        \/ UndeleteState3(p)
        \/ UndeleteState4(p)
        \/ DbExecute(p)
        \/ DbDisconnect(p)
        \/ DeliverBegin(p)
        \/ DeliverCommit(p)

UndeleteInit ==
    IdleMailbox /\ IdleCreator /\ IdleFetcher /\ IdleBatch
    /\ InitUndelete /\ IdleLoop /\ IdleRun /\ IdleFlag
    /\ IdleRound /\ IdleSlots /\ IdleSort /\ IdleHeader

SpecUndelete == UndeleteInit /\ [][NextUndelete]_vars

\* C8: no step of an undelete command run with -n, nor of the server on its
\* behalf, changes what is committed: the mailbox's row (deleted, owner,
\* uidnext, nextmodseq), mailbox_messages and deleted_messages stay as they
\* are, also when the command recreates a deleted mailbox.
DryRunChangesNothing ==
    [][\A p \in UProcs :
          (ud[p].kind = "undelete" /\ ud[p].n /\ ud'[p] # ud[p])
              => base' = base]_vars

\* A command with -n has recreated the deleted mailbox and restored messages
\* in its transaction, and has finished after the rollback.
DryRunWitness ==
    \E p \in UProcs :
        /\ ud[p].kind = "undelete" /\ ud[p].n
        /\ ud[p].ended = "finish"
        /\ ud[p].tstate = "rolledback"
        /\ ud[p].recreated
        /\ ud[p].k >= 1

\* The rows of mailbox_messages that process p's transaction committed.
restoredBy(p) == {r \in base.mm : r.by = p}

\* C9: a committed undelete that read uidnext u under the row lock and
\* restored k messages leaves k rows with k distinct UIDs, all at least u;
\* uidnext is above every UID in the mailbox; no UID is in the mailbox
\* twice, whoever assigned it; and uidnext never goes backwards.
RestoredUidsAreFresh ==
    /\ [](\A p \in UProcs :
            (ud[p].kind = "undelete" /\ ud[p].tstate = "committed") =>
                /\ Cardinality(restoredBy(p)) = ud[p].k
                /\ Cardinality({r.uid : r \in restoredBy(p)}) = ud[p].k
                /\ \A r \in restoredBy(p) : r.uid >= ud[p].uidnext)
    /\ [](\A r \in base.mm : r.uid < base.row.uidnext)
    /\ [](\A a, b \in base.mm : a.uid = b.uid => a = b)
    /\ [][base'.row.uidnext >= base.row.uidnext]_vars

\* Two undeletes have both committed: one restored two messages; the other
\* had found messages to restore before that, read uidnext after it, and
\* then restored none, as they were no longer deleted.
RestoredConcurrentlyWitness ==
    \E p, q \in UProcs :
        /\ p # q
        /\ ud[p].kind = "undelete" /\ ud[p].tstate = "committed"
        /\ ud[p].k = 2
        /\ ud[q].tstate = "committed"
        /\ ud[q].found # {}
        /\ ud[q].k = 0
        /\ ud[q].uidnext = ud[p].uidnext + 2

(***************************************************************************)
(* The EventLoop's list of connections, src/server/eventloop.cpp.          *)
(* el.last records the call made last (which call, on which connection,    *)
(* and whether the list held it before); it is not part of LoopData.       *)
(***************************************************************************)
Connections == 1 .. 4

\* Connection::type() of the four Connection objects.
type(c) ==
    CASE c = 1 -> "Listener"
      [] c = 2 -> "ImapServer"
      [] c = 3 -> "LogClient"
      [] OTHER -> "SmtpServer"

Graphs == {"imap", "smtp", "internal"}

\* LoopData(), and the GraphableNumbers, which do not exist yet.
LoopData ==
    [ stop |-> FALSE, startup |-> FALSE, connections |-> <<>>,
      timers |-> <<>>,
      graphs |-> [g \in Graphs |-> -1], logged |-> <<>>,
      last |-> [op |-> "none", c |-> 0, had |-> FALSE] ]

\* List::find( c ).
find(l, c) == \E i \in 1 .. Len(l) : l[i] = c

\* List::remove( c ): the list without the first c.
remove(l, c) ==
    IF find(l, c)
    THEN LET i == CHOOSE j \in 1 .. Len(l) :
                     l[j] = c /\ \A k \in 1 .. (j - 1) : l[k] # c
         IN SubSeq(l, 1, i - 1) \o SubSeq(l, i + 1, Len(l))
    ELSE l

\* How many connections of the types that graph g counts are in l.
count(l, g) ==
    LET of == CASE g = "imap" -> {"ImapServer"}
                [] g = "smtp" -> {"SmtpServer"}
                [] OTHER -> {"LogClient"}
    IN Len(SelectSeq(l, LAMBDA c : type(c) \in of))

setConnectionCounts(d) ==
    IF \E i \in 1 .. Len(d.connections) : type(d.connections[i]) = "Listener"
    THEN [d EXCEPT !.graphs = [g \in Graphs |-> count(d.connections, g)]]
    ELSE d

\* addConnection without the test on find().
addConnectionNoFind(d, c) ==
    IF d.stop
    THEN [d EXCEPT !.logged = <<"Cannot add new Connection objects", 0>>]
    ELSE setConnectionCounts(
             [d EXCEPT !.connections = <<c>> \o @,
                       !.logged = IF type(c) # "LogClient"
                                  THEN <<"Added", c>> ELSE @])

addConnection(d, c) ==
    IF d.stop
    THEN [d EXCEPT !.logged = <<"Cannot add new Connection objects", 0>>]
    ELSE IF find(d.connections, c)
    THEN d
    ELSE setConnectionCounts(
             [d EXCEPT !.connections = <<c>> \o @,
                       !.logged = IF type(c) # "LogClient"
                                  THEN <<"Added", c>> ELSE @])

removeConnection(d, c) ==
    IF ~find(d.connections, c)
    THEN d
    ELSE setConnectionCounts(
             [d EXCEPT !.connections = remove(@, c),
                       !.logged = IF type(c) # "LogClient"
                                  THEN <<"Removed", c>> ELSE @])

\* The loop of closeAllExcept and closeAllExceptListeners over the
\* connections cs: those not in keep are removed, one after the other.
RECURSIVE closeAll(_, _, _)
closeAll(d, cs, keep) ==
    IF cs = <<>> THEN d
    ELSE closeAll(IF Head(cs) \in keep THEN d
                  ELSE removeConnection(d, Head(cs)),
                  Tail(cs), keep)

closeAllExcept(d, c1, c2) == closeAll(d, d.connections, {c1, c2})

closeAllExceptListeners(d) ==
    closeAll(d, d.connections, {c \in Connections : type(c) = "Listener"})

called(d, op, c) ==
    [d EXCEPT !.last = [op |-> op, c |-> c, had |-> find(el.connections, c)]]

AddConnection(c) ==
    /\ el' = called(addConnection(el, c), "addConnection", c)
    /\ UNCHANGED notLoop

RemoveConnection(c) ==
    /\ el' = called(removeConnection(el, c), "removeConnection", c)
    /\ UNCHANGED notLoop

Stop ==
    /\ el' = called([el EXCEPT !.stop = TRUE], "stop", 0)
    /\ UNCHANGED notLoop

CloseAllExcept(c1, c2) ==
    /\ el' = called(closeAllExcept(el, c1, c2), "closeAllExcept", c1)
    /\ UNCHANGED notLoop

CloseAllExceptListeners ==
    /\ el' = called(closeAllExceptListeners(el), "closeAllExceptListeners", 0)
    /\ UNCHANGED notLoop

InitLoop == el = LoopData

NextLoop ==
    \/ \E c \in Connections : AddConnection(c)
    \/ \E c \in Connections : RemoveConnection(c)
    \/ Stop
    \/ \E c1 \in Connections, c2 \in Connections : CloseAllExcept(c1, c2)
    \/ CloseAllExceptListeners

LoopInit ==
    IdleMailbox /\ IdleCreator /\ IdleFetcher /\ IdleBatch
    /\ IdleUndelete /\ InitLoop /\ IdleRun /\ IdleFlag
    /\ IdleRound /\ IdleSlots /\ IdleSort /\ IdleHeader

SpecLoop == LoopInit /\ [][NextLoop]_vars

\* C10: a call of addConnection(c) changes the list of connections only if
\* stop() was not called and the list did not hold c, and then the new list
\* is the old one with c added once; otherwise the list stays as it was; so
\* no connection is in the list twice.
AddConnectionAddsOnce ==
    /\ [][el'.last.op = "addConnection" =>
            LET c == el'.last.c
            IN IF ~el.stop /\ ~find(el.connections, c)
               THEN /\ Len(el'.connections) = Len(el.connections) + 1
                    /\ find(el'.connections, c)
                    /\ SelectSeq(el'.connections, LAMBDA x : x # c)
                          = el.connections
               ELSE el'.connections = el.connections]_vars
    /\ [](\A i, j \in 1 .. Len(el.connections) :
             el.connections[i] = el.connections[j] => i = j)

\* After stop(), and with two connections in the list, addConnection was
\* called for a connection that is not in the list, and the list does not
\* hold it.
AddAfterStopWitness ==
    /\ el.stop
    /\ el.last.op = "addConnection"
    /\ ~el.last.had
    /\ ~find(el.connections, el.last.c)
    /\ Len(el.connections) = 2

(***************************************************************************)
(* The running EventLoop: EventLoop::start and EventLoop::dispatch.  The   *)
(* Connection and Timer classes are not part of the sources at hand: a     *)
(* Connection is its state, whether its fd is open, whether the peer has   *)
(* closed (eof), whether output is waiting (out), its write buffer's error *)
(* (werr), its timeout and its pending events.  What a handler does when   *)
(* an event is raised is chosen freely among a few things handlers do, and *)
(* so is what the socket does on read() and write().                       *)
(***************************************************************************)
Events == {"Timeout", "Connect", "Error", "Read", "Close", "Shutdown"}

\* What the handler of one event does in one dispatch; the handlers of the
\* other events do nothing.
Effects == {"none", "closing", "close", "throw", "stop", "startup",
            "started", "enqueue"}

Handlers ==
    {[on |-> "Read", does |-> "none"]}
        \cup [on : Events, does : Effects \ {"none", "started"}]

\* The handlers that matter to dispatch, and those that matter at shutdown.
DispatchHandlers == {h \in Handlers : h.on # "Shutdown"}

ShutdownHandlers == {h \in Handlers : h.on \in {"Read", "Shutdown"}}

\* The socket: whether read() finds the peer closed, whether write() fails,
\* and whether SO_ERROR is non-zero.  A write() that does not fail sends all
\* the output there is.
Sockets ==
    {io \in [eof : BOOLEAN, werr : BOOLEAN, errval : BOOLEAN] :
        io.errval => ~io.eof /\ ~io.werr}

valid(c) == c.fd

active(c) == valid(c) /\ c.state # "Inactive"

canRead(c) == valid(c) /\ ~c.eof

canWrite(c) == c.out

\* Connection::close().
close(c) == IF valid(c) THEN [c EXCEPT !.fd = FALSE, !.state = "Invalid"] ELSE c

\* The position of a state in the order of Connection states.
rank(st) ==
    CASE st = "Inactive" -> 0
      [] st = "Listening" -> 1
      [] st = "Connecting" -> 1
      [] st = "Connected" -> 2
      [] st = "Closing" -> 3
      [] OTHER -> 4

\* What one call of dispatch (or one turn of the shutdown walk) works on:
\* the connection c, the flags r and w, the loop's stop and startup, whether
\* an exception is on its way to the catch, whether the loop forgot the
\* connection, and the record tr of what was done: each entry holds what was
\* called, and the connection's state and the loop's startup at that time.
Work(c, r, w, d) ==
    [ c |-> c, r |-> r, w |-> w, stop |-> d.stop, startup |-> d.startup,
      thrown |-> FALSE, removed |-> FALSE, tr |-> <<>> ]

note(s, op) ==
    [s EXCEPT !.tr = Append(@, [op |-> op, state |-> s.c.state,
                                startup |-> s.startup])]

\* Connection::setState().
setState(s, st) == [note(s, st) EXCEPT !.c.state = st]

\* EventLoop::setStartup( p ), on the loop's flag.
setStartup(startup, p) == p

\* c->react( e ), with the handler h.
react(s, e, h) ==
    LET t == note(s, e)
    IN IF h.on # e THEN t
       ELSE CASE h.does = "closing" ->
                   IF t.c.state \in {"Connecting", "Connected"}
                   THEN [t EXCEPT !.c.state = "Closing"] ELSE t
              [] h.does = "close" -> [t EXCEPT !.c = close(@)]
              [] h.does = "throw" ->
                   [note(t, "exception") EXCEPT !.thrown = TRUE]
              [] h.does = "stop" -> [t EXCEPT !.stop = TRUE]
              [] h.does = "startup" -> [t EXCEPT !.startup = setStartup(@, TRUE)]
              [] h.does = "started" ->
                   [t EXCEPT !.startup = setStartup(@, FALSE)]
              [] h.does = "enqueue" -> [t EXCEPT !.c.out = TRUE]
              [] h.does = "timeout" -> [t EXCEPT !.c.timeout = 2]
              [] OTHER -> t

\* The timeout of dispatch with the timeout cleared after the event.
dispatchTimeoutClearsAfter(s, now, h) ==
    IF s.c.timeout # 0 /\ now >= s.c.timeout
    THEN LET a == react(s, "Timeout", h)
         IN IF a.thrown THEN a ELSE [a EXCEPT !.c.timeout = 0, !.w = TRUE]
    ELSE s

\* dispatch, line 355-359: the timeout.
dispatchTimeout(s, now, h) ==
    IF s.c.timeout # 0 /\ now >= s.c.timeout
    THEN LET a == react([s EXCEPT !.c.timeout = 0], "Timeout", h)
         IN IF a.thrown THEN a ELSE [a EXCEPT !.w = TRUE]
    ELSE s

\* The same with an error branch that leaves r and w as they are.
connectingKeepsIO(s, h, io) ==
         LET first == (s.w /\ ~s.r) \/ "Connect" \in s.c.pending
             second == ~first /\ "Error" \in s.c.pending
             third == ~first /\ ~second /\ s.w /\ s.r
             connected == first \/ (third /\ ~io.errval)
             error == second \/ (third /\ io.errval)
         IN IF connected
            THEN LET a == react(setState(s, "Connected"), "Connect", h)
                 IN IF a.thrown THEN a ELSE [a EXCEPT !.w = TRUE]
            ELSE IF error
            THEN LET a == react(s, "Error", h)
                 IN IF a.thrown THEN a ELSE setState(a, "Closing")
            ELSE s

\* dispatch, line 362-395: what is done for a connection in state
\* Connecting.
connecting(s, h, io) ==
         LET first == (s.w /\ ~s.r) \/ "Connect" \in s.c.pending
             second == ~first /\ "Error" \in s.c.pending
             third == ~first /\ ~second /\ s.w /\ s.r
             connected == first \/ (third /\ ~io.errval)
             error == second \/ (third /\ io.errval)
         IN IF connected
            THEN LET a == react(setState(s, "Connected"), "Connect", h)
                 IN IF a.thrown THEN a ELSE [a EXCEPT !.w = TRUE]
            ELSE IF error
            THEN LET a == react(s, "Error", h)
                 IN IF a.thrown THEN a
                    ELSE [setState(a, "Closing") EXCEPT !.w = FALSE,
                                                        !.r = FALSE]
            ELSE s

\* The same done for a connection in any state.
dispatchConnectingAlways(s, h, io) ==
    IF s.thrown THEN s ELSE connecting(s, h, io)

\* dispatch, line 361-396.
dispatchConnecting(s, h, io) ==
    IF s.thrown \/ s.c.state # "Connecting" THEN s
    ELSE connecting(s, h, io)

\* The reading of dispatch with the Read event raised before read().
dispatchReadEventFirst(s, h, io) ==
    IF s.thrown \/ ~s.r THEN s
    ELSE LET e == react(s, "Read", h)
             a == IF e.thrown THEN e
                  ELSE [note(e, "read") EXCEPT !.c.eof = @ \/ io.eof]
             b == IF a.thrown \/ canRead(a.c) THEN a
                  ELSE react(setState(a, "Closing"), "Close", h)
         IN IF b.thrown THEN b ELSE [b EXCEPT !.w = TRUE]

\* dispatch, line 398-408: reading.
dispatchRead(s, h, io) ==
    IF s.thrown \/ ~s.r THEN s
    ELSE LET a == react([note(s, "read") EXCEPT !.c.eof = @ \/ io.eof],
                        "Read", h)
             b == IF a.thrown \/ canRead(a.c) THEN a
                  ELSE react(setState(a, "Closing"), "Close", h)
         IN IF b.thrown THEN b ELSE [b EXCEPT !.w = TRUE]

\* dispatch, line 410-416: writing.
dispatchWrite(s, h, io) ==
    IF s.thrown \/ ~s.w THEN s
    ELSE LET a == [note(s, "write") EXCEPT
                      !.c.werr = @ \/ io.werr,
                      !.c.out = IF io.werr THEN @ ELSE FALSE]
         IN IF a.c.werr
            THEN react(setState(a, "Closing"), "Close", h)
            ELSE a

\* The catch of dispatch without c->close().
dispatchCatchNoClose(s) ==
    IF s.thrown THEN [note(s, "caught") EXCEPT !.thrown = FALSE] ELSE s

\* dispatch, line 418-434: the catch.
dispatchCatch(s) ==
    IF s.thrown
    THEN [note(s, "caught") EXCEPT !.c = close(@), !.thrown = FALSE]
    ELSE s

\* dispatch, line 436-439.
dispatchEnd(s) ==
    LET a == IF s.c.state = "Closing" /\ ~canWrite(s.c)
             THEN [note(s, "close") EXCEPT !.c = close(@)]
             ELSE s
    IN IF ~valid(a.c) THEN [a EXCEPT !.removed = TRUE] ELSE a

\* EventLoop::dispatch( c, r, w, now ).
dispatch(s, now, h, io) ==
    dispatchEnd(dispatchCatch(dispatchWrite(dispatchRead(
        dispatchConnecting(dispatchTimeout(s, now, h), h, io), h, io),
        h, io)))

\* One turn of the loop at the end of start, without its try and catch.
shutdownTurnNoCatch(s, h, io) ==
    LET a == IF s.c.state = "Connected" THEN react(s, "Shutdown", h) ELSE s
    IN IF ~a.thrown /\ a.c.state = "Connected"
       THEN [note(a, "write") EXCEPT
                !.c.werr = @ \/ io.werr,
                !.c.out = IF io.werr THEN @ ELSE FALSE]
       ELSE a

\* One turn of the loop at the end of start, line 325-338.
shutdownTurn(s, h, io) ==
    LET a == IF s.c.state = "Connected" THEN react(s, "Shutdown", h) ELSE s
        b == IF ~a.thrown /\ a.c.state = "Connected"
             THEN [note(a, "write") EXCEPT
                      !.c.werr = @ \/ io.werr,
                      !.c.out = IF io.werr THEN @ ELSE FALSE]
             ELSE a
    IN [b EXCEPT !.thrown = FALSE]

MaxIterations == 2
MaxNodes == 3

Timers == {1, 2}

TimerEffects ==
    {[does |-> x, t |-> 0] : x \in {"none", "stop", "startup", "started"}}
      \cup [does : {"addTimer", "removeTimer"}, t : Timers]

\* start, line 173-174: whether connection c takes part in this iteration.
wantsNoStartup(d, c) == active(cn[c])

wants(d, c) == active(cn[c]) /\ ~(d.startup /\ type(c) = "Listener")

inList(d) == {d.connections[i] : i \in 1 .. Len(d.connections)}

\* start, line 178-179 and 180-183: the sets r and w given to select().
readSet(d) ==
    {c \in inList(d) : wants(d, c) /\ canRead(cn[c])
                          /\ cn[c].state # "Closing"}

writeSet(d) ==
    {c \in inList(d) :
        wants(d, c) /\ (canWrite(cn[c]) \/ cn[c].state = "Connecting"
                           \/ cn[c].state = "Closing")}

\* The index in d->timers of the node n, 0 if it is not linked there.
nodeAt(d, n) ==
    IF \E i \in 1 .. Len(d.timers) : d.timers[i].n = n
    THEN CHOOSE i \in 1 .. Len(d.timers) : d.timers[i].n = n
    ELSE 0

\* The node after the i-th, 0 at the end of the list.
nodeAfter(d, i) == IF i < Len(d.timers) THEN d.timers[i + 1].n ELSE 0

\* addTimer( t ): a new node n at the end of d->timers.
addTimer(d, t, n) == [d EXCEPT !.timers = Append(@, [t |-> t, n |-> n])]

\* The index of what d->timers.find( t ) finds, 0 if nothing.
findTimer(d, t) ==
    IF \E i \in 1 .. Len(d.timers) : d.timers[i].t = t
    THEN CHOOSE i \in 1 .. Len(d.timers) :
             d.timers[i].t = t /\ \A j \in 1 .. (i - 1) : d.timers[j].t # t
    ELSE 0

\* removeTimer( t ).
removeTimer(d, t) ==
    LET i == findTimer(d, t)
    IN IF i = 0 THEN d
       ELSE [d EXCEPT !.timers = SubSeq(@, 1, i - 1)
                                    \o SubSeq(@, i + 1, Len(@))]

\* What start() knows before its loop: nothing was done yet.
Idling ==
    [ pc |-> "idle", iter |-> 0, now |-> 0, nodes |-> 0,
      rq |-> {}, wq |-> {}, rqStartup |-> FALSE, r |-> {}, w |-> {}, rest |-> <<>>,
      it |-> 0, lost |-> [n |-> 0, t |-> 0, next |-> 0],
      did |-> [kind |-> "none", c |-> 0, tr |-> <<>>, flag |-> FALSE] ]

\* A Connection object.
Connection(st, out, timeout, pending) ==
    [ state |-> st, fd |-> TRUE, eof |-> FALSE, out |-> out, werr |-> FALSE,
      timeout |-> timeout, pending |-> pending ]

\* The Timer objects: both active, due at time 1 and 2.
InitTimer ==
    tmr = [t \in Timers |-> [active |-> TRUE, timeout |-> t,
                             removed |-> FALSE]]

\* A loop with two connections and no timers: connection 1 is a Listener,
\* connection 2, added after it, is a server's or a client's.
InitRun ==
    /\ \E p \in BOOLEAN :
          el = [LoopData EXCEPT !.connections = <<2, 1>>, !.startup = p]
    /\ \E st \in {"Inactive", "Connecting", "Connected", "Closing"},
          o \in BOOLEAN, t \in {0, 2}, p \in {{}, {"Connect"}, {"Error"}} :
            /\ st # "Connecting" => p = {}
            /\ st \notin {"Connected", "Closing"} => ~o
            /\ st # "Connected" => t = 0
            /\ cn = [c \in 1 .. 2 |->
                       IF c = 1 THEN Connection("Listening", FALSE, 0, {})
                       ELSE Connection(st, o, t, p)]
    /\ InitTimer
    /\ run = Idling

\* A loop with timers and no connections.
InitTimers ==
    /\ el = LoopData
    /\ cn = <<>>
    /\ InitTimer
    /\ run = Idling

\* The calls made before start(): addTimer, removeTimer.
AddTimer(t) ==
    /\ run.pc = "idle"
    /\ run.nodes < MaxNodes
    /\ el' = addTimer(el, t, run.nodes + 1)
    /\ tmr' = [tmr EXCEPT ![t].removed = FALSE]
    /\ run' = [run EXCEPT !.nodes = @ + 1]
    /\ UNCHANGED <<cn, notRun>>

RemoveTimer(t) ==
    /\ run.pc = "idle"
    /\ el' = removeTimer(el, t)
    /\ tmr' = [tmr EXCEPT ![t].removed = TRUE]
    /\ UNCHANGED <<cn, run, notRun>>

\* start() is called.
LoopStart ==
    /\ run.pc = "idle"
    /\ run' = [run EXCEPT !.pc = "top"]
    /\ UNCHANGED <<el, cn, tmr, notRun>>

\* Where start() goes after select(): to the timers if there are any, else
\* to the connections.
afterSelect(d, u) ==
    IF d.timers # <<>>
    THEN [u EXCEPT !.pc = "timers", !.it = d.timers[1].n,
                   !.lost = [n |-> 0, t |-> 0, next |-> 0]]
    ELSE [u EXCEPT !.pc = IF d.connections = <<>> THEN "top" ELSE "dispatch",
                   !.rest = d.connections]

\* start, line 155-267: the top of an iteration up to the return of
\* select(), which reports some of the fds as ready (after an error the
\* sets are whatever select() left of them), or fails with EBADF for the
\* connections in bad, or fails for good.
LoopSelect ==
    /\ run.pc = "top"
    /\ ~el.stop
    /\ run.iter < MaxIterations
    /\ \E n \in {"ready", "EBADF", "other"}, step \in {1},
          rr \in SUBSET readSet(el), ww \in SUBSET writeSet(el),
          bad \in inList(el) \cup {0} :
          LET u == [run EXCEPT !.iter = @ + 1, !.now = @ + step,
                               !.rq = readSet(el),
                               !.wq = writeSet(el),
                               !.rqStartup = el.startup,
                               !.r = rr, !.w = ww,
                               !.did = [kind |-> "select", c |-> 0,
                                        tr |-> <<>>, flag |-> FALSE]]
              d == IF n = "EBADF" THEN removeConnection(el, bad) ELSE el
          IN /\ (n = "EBADF") = (bad # 0)
             /\ el' = d
             /\ run' = IF n = "other" THEN [u EXCEPT !.pc = "returned"]
                       ELSE afterSelect(d, u)
    /\ UNCHANGED <<cn, tmr, notRun>>

\* What the callback of a timer does to the loop.
callback(d, x, n) ==
    CASE x.does = "stop" -> [d EXCEPT !.stop = TRUE]
      [] x.does = "startup" -> [d EXCEPT !.startup = setStartup(@, TRUE)]
      [] x.does = "started" -> [d EXCEPT !.startup = setStartup(@, FALSE)]
      [] x.does = "addTimer" -> addTimer(d, x.t, n)
      [] x.does = "removeTimer" -> removeTimer(d, x.t)
      [] OTHER -> d

\* start, line 290-301, one turn of the loop over the timers.  The iterator
\* is at node run.it; if that node was taken out of the list meanwhile, the
\* List code (not at hand) decides whether its successor can still be
\* reached from it.
LoopTimer ==
    /\ run.pc = "timers"
    /\ \E x \in TimerEffects, reach \in BOOLEAN :
        LET i == nodeAt(el, run.it)
            tmp == IF i # 0 THEN el.timers[i].t ELSE run.lost.t
            next == IF i # 0 THEN nodeAfter(el, i)
                    ELSE IF reach /\ nodeAt(el, run.lost.next) # 0
                    THEN run.lost.next ELSE 0
            due == tmr[tmp].active /\ tmr[tmp].timeout <= run.now
            d == IF due THEN callback(el, x, run.nodes + 1) ELSE el
            j == nodeAt(el, next)
            taken == next # 0 /\ nodeAt(d, next) = 0
            u == [run EXCEPT
                    !.it = next,
                    !.nodes = IF due /\ x.does = "addTimer" THEN @ + 1 ELSE @,
                    !.lost = IF taken
                             THEN [n |-> next, t |-> el.timers[j].t,
                                   next |-> nodeAfter(el, j)]
                             ELSE [n |-> 0, t |-> 0, next |-> 0],
                    !.did = [kind |-> IF due THEN "timer" ELSE "idle timer",
                             c |-> tmp, tr |-> <<>>,
                             flag |-> tmr[tmp].removed]]
        IN /\ i # 0 => reach
           /\ ~due => x.does = "none"
           /\ (due /\ x.does = "addTimer") => run.nodes < MaxNodes
           /\ el' = d
           /\ tmr' = IF due /\ x.does = "addTimer"
                     THEN [tmr EXCEPT ![x.t].removed = FALSE]
                     ELSE IF due /\ x.does = "removeTimer"
                     THEN [tmr EXCEPT ![x.t].removed = TRUE]
                     ELSE tmr
           /\ run' = IF next # 0 THEN u
                     ELSE [u EXCEPT
                             !.pc = IF d.connections = <<>> THEN "top"
                                    ELSE "dispatch",
                             !.rest = d.connections]
    /\ UNCHANGED <<cn, notRun>>

\* start, line 305-318, one turn of the loop over the connections.
LoopDispatch ==
    /\ run.pc = "dispatch"
    /\ \E h \in DispatchHandlers, io \in Sockets :
        LET c == Head(run.rest)
            s == IF valid(cn[c])
                 THEN dispatch(Work(cn[c], c \in run.r, c \in run.w, el),
                               run.now, h, io)
                 ELSE [Work(cn[c], FALSE, FALSE, el) EXCEPT !.removed = TRUE]
            d == [el EXCEPT !.stop = s.stop, !.startup = s.startup]
        IN /\ cn' = [cn EXCEPT ![c] = s.c]
           /\ el' = IF s.removed THEN removeConnection(d, c) ELSE d
           /\ run' = [run EXCEPT
                        !.rest = Tail(@),
                        !.r = @ \ {c}, !.w = @ \ {c},
                        !.pc = IF Tail(run.rest) = <<>> THEN "top" ELSE @,
                        !.did = [kind |-> "dispatch", c |-> c, tr |-> s.tr,
                                 flag |-> valid(cn[c])]]
    /\ UNCHANGED <<tmr, notRun>>

\* start, line 155 and 321-325: stop() was called, the loop ends.
LoopShutdown ==
    /\ run.pc = "top"
    /\ el.stop
    /\ run' = [run EXCEPT
                 !.pc = IF el.connections = <<>> THEN "stopped" ELSE "walk",
                 !.rest = el.connections,
                 !.did = [kind |-> "shutdown", c |-> 0, tr |-> <<>>,
                          flag |-> FALSE]]
    /\ UNCHANGED <<el, cn, tmr, notRun>>

\* start, line 325-338, one turn of the walk over the connections; an
\* exception that the turn does not catch ends start().
LoopWalk ==
    /\ run.pc = "walk"
    /\ \E h \in ShutdownHandlers, io \in Sockets :
        LET c == Head(run.rest)
            s == shutdownTurn(Work(cn[c], FALSE, FALSE, el), h, io)
        IN /\ cn' = [cn EXCEPT ![c] = s.c]
           /\ el' = [el EXCEPT !.startup = s.startup]
           /\ run' = [run EXCEPT
                        !.rest = IF s.thrown THEN @ ELSE Tail(@),
                        !.pc = IF s.thrown \/ Tail(run.rest) = <<>>
                               THEN "stopped" ELSE @,
                        !.did = [kind |-> "walk", c |-> c, tr |-> s.tr,
                                 flag |-> cn[c].state = "Connected"]]
    /\ UNCHANGED <<tmr, notRun>>

NextRun ==
    \/ LoopStart
    \/ LoopSelect
    \/ LoopDispatch
    \/ LoopShutdown
    \/ LoopWalk

NextTimers ==
    \/ \E t \in Timers : AddTimer(t)
    \/ \E t \in Timers : RemoveTimer(t)
    \/ LoopStart
    \/ LoopSelect
    \/ LoopTimer
    \/ LoopShutdown

RunInit ==
    IdleMailbox /\ IdleCreator /\ IdleFetcher /\ IdleBatch
    /\ IdleUndelete /\ InitRun /\ IdleFlag
    /\ IdleRound /\ IdleSlots /\ IdleSort /\ IdleHeader

SpecRun == RunInit /\ [][NextRun]_vars

TimersInit ==
    IdleMailbox /\ IdleCreator /\ IdleFetcher /\ IdleBatch
    /\ IdleUndelete /\ InitTimers /\ IdleFlag
    /\ IdleRound /\ IdleSlots /\ IdleSort /\ IdleHeader

SpecTimers == TimersInit /\ [][NextTimers]_vars

\* The connection that dispatch was last called for got the event e.
got(e) == \E i \in 1 .. Len(run.did.tr) : run.did.tr[i].op = e

\* ... while the loop was in startup mode.
gotInStartup(e) ==
    \E i \in 1 .. Len(run.did.tr) :
        run.did.tr[i].op = e /\ run.did.tr[i].startup

times(e) == Cardinality({i \in 1 .. Len(run.did.tr) : run.did.tr[i].op = e})

seen ==
    [i \in 1 .. Len(run.did.tr) |-> run.did.tr[i].state]
        \o <<cn[run.did.c].state>>

Ordered == {"Inactive", "Connecting", "Connected", "Closing"}

\* C13: in a call of dispatch the connection's state never steps back in the
\* order Inactive, Connecting, Connected, Closing.
DispatchMovesForward ==
    run.did.kind = "dispatch" =>
        \A i, j \in 1 .. Len(seen) :
            (i < j /\ seen[i] \in Ordered /\ seen[j] \in Ordered)
                => rank(seen[i]) <= rank(seen[j])

\* One call of dispatch has taken a connection from Connecting to Connected
\* and on to Closing.
DispatchThroughWitness ==
    /\ run.did.kind = "dispatch"
    /\ Len(run.did.tr) > 0
    /\ run.did.tr[1].state = "Connecting"
    /\ got("Connected")
    /\ got("Closing")

\* C14: a connection in state Closing is not put in the read set, and is put
\* in the write set; read() is not called on it; and dispatch closes a
\* connection that is Closing only if it has no output left, unless there
\* was an exception.
ClosingIsNotRead ==
    /\ run.did.kind = "select" =>
          \A c \in inList(el) :
             (valid(cn[c]) /\ cn[c].state = "Closing")
                 => c \notin run.rq /\ c \in run.wq
    /\ run.did.kind = "dispatch" =>
          /\ \A i \in 1 .. Len(run.did.tr) :
                run.did.tr[i].op = "read" => run.did.tr[i].state # "Closing"
          /\ got("close") => ~canWrite(cn[run.did.c])

\* C19: a timer that removeTimer was called for, and addTimer was not
\* called for since, is not executed by the loop.
RemovedTimerNotExecuted ==
    run.did.kind = "timer" => ~run.did.flag

\* C29: when an exception is raised in a call of dispatch for connection c,
\* at the end of the call c is closed and is not in the loop's list; the
\* other connections stay in the list, stop is as it was, and the loop goes
\* on with the connections it has not dispatched yet in this iteration.
ExceptionClosesConnection ==
    [][(/\ run.pc = "dispatch"
        /\ run'.did.kind = "dispatch"
        /\ \E i \in 1 .. Len(run'.did.tr) : run'.did.tr[i].op = "exception")
         => LET c == run'.did.c
            IN  /\ c = Head(run.rest)
                /\ ~valid(cn'[c])
                /\ inList(el') = inList(el) \ {c}
                /\ el'.stop = el.stop
                /\ run'.rest = Tail(run.rest)
                /\ run'.pc = IF run'.rest = <<>> THEN "top" ELSE "dispatch"
      ]_vars

\* A handler of connection 2 threw an exception; the Listener is still to
\* be dispatched in this iteration.
ExceptionWitness ==
    /\ run.did.kind = "dispatch"
    /\ run.did.c = 2
    /\ got("exception")
    /\ got("caught")
    /\ run.pc = "dispatch"
    /\ run.rest = <<1>>
    /\ inList(el) = {1}

(***************************************************************************)
(* EventLoop::dispatch by itself: one connection (number 2, a server's) in *)
(* any state, dispatched once in each iteration of the loop, with whatever *)
(* select() may report for it.                                             *)
(***************************************************************************)
MaxCalls == 2

\* The handlers of DispatchHandlers, and handlers that set a new timeout.
TimeoutHandlers ==
    DispatchHandlers \cup [on : {"Timeout", "Read"}, does : {"timeout"}]

NoCall == [kind |-> "none", c |-> 2, tr |-> <<>>, flag |-> FALSE]

\* What is kept of the iteration before: whether dispatch found the timeout
\* expired, and whether a handler set a new one.
NoIteration == [expired |-> FALSE, renewed |-> FALSE]

InitDispatch ==
    /\ el = [LoopData EXCEPT !.connections = <<2>>]
    /\ \E st \in {"Inactive", "Listening", "Connecting", "Connected",
                   "Closing"},
          o \in BOOLEAN, t \in 0 .. 2,
          p \in SUBSET {"Connect", "Error"} :
            /\ st # "Connecting" => p = {}
            /\ st \notin {"Connected", "Closing"} => ~o
            /\ st = "Inactive" => t = 0
            /\ cn = [c \in {2} |-> Connection(st, o, t, p)]
    /\ tmr = <<>>
    /\ run = [calls |-> 0, now |-> 0, did |-> NoCall, prev |-> NoIteration]

\* start, line 305-318, for one connection: dispatch( c, r, w, now ), where
\* r and w are what select() made of the sets built for it.
Dispatch(r, w) ==
    /\ run.calls < MaxCalls
    /\ run.did.kind = "none"
    /\ ~el.stop
    /\ 2 \in inList(el)
    /\ valid(cn[2])
    /\ r => 2 \in readSet(el)
    /\ w => 2 \in writeSet(el)
    /\ \E h \in TimeoutHandlers, io \in Sockets :
        LET now == run.now + 1
            s == dispatch(Work(cn[2], r, w, el), now, h, io)
            d == [el EXCEPT !.stop = s.stop, !.startup = s.startup]
        IN /\ cn' = [cn EXCEPT ![2] = s.c]
           /\ el' = IF s.removed THEN removeConnection(d, 2) ELSE d
           /\ run' = [calls |-> run.calls + 1, now |-> now,
                      prev |-> run.prev,
                      did |-> [kind |-> "dispatch", c |-> 2, tr |-> s.tr,
                               flag |-> TRUE, was |-> cn[2], r |-> r,
                               w |-> w, now |-> now, h |-> h, io |-> io,
                               res |-> s]]
    /\ UNCHANGED <<tmr, notRun>>

\* The call d of dispatch found the connection's timeout expired.
expired(d) == d.was.timeout # 0 /\ d.now >= d.was.timeout

\* start, line 157: the loop goes round.
NextIteration ==
    /\ run.did.kind = "dispatch"
    /\ run' = [run EXCEPT
                 !.prev = [expired |-> expired(run.did),
                           renewed |-> run.did.h.does = "timeout"],
                 !.did = NoCall]
    /\ UNCHANGED <<el, cn, tmr, notRun>>

NextDispatch ==
    \/ \E r \in BOOLEAN, w \in BOOLEAN : Dispatch(r, w)
    \/ NextIteration

DispatchInit ==
    IdleMailbox /\ IdleCreator /\ IdleFetcher /\ IdleBatch
    /\ IdleUndelete /\ InitDispatch /\ IdleFlag
    /\ IdleRound /\ IdleSlots /\ IdleSort /\ IdleHeader

SpecDispatch == DispatchInit /\ [][NextDispatch]_vars

\* C22: a call of dispatch that finds the timeout expired raises one Timeout
\* event, first of all, and none otherwise; the timeout is cleared before
\* the event (it is 0 afterwards unless a handler set a new one, and a new
\* one set by the Timeout handler stays); the connection is then taken as
\* writable (write() is called, or the Error branch cancels it, unless an
\* exception ends the call); a Connected connection with nothing else to do
\* is neither closed nor is the loop stopped; and the next call raises no
\* Timeout event unless a handler set a new timeout.
TimeoutRaisedOnce ==
    run.did.kind = "dispatch" =>
        LET d == run.did
        IN  /\ times("Timeout") = IF expired(d) THEN 1 ELSE 0
            /\ expired(d) =>
                  /\ d.tr[1].op = "Timeout"
                  /\ d.h.does # "timeout" => d.res.c.timeout = 0
                  /\ d.h = [on |-> "Timeout", does |-> "timeout"]
                        => d.res.c.timeout = 2
                  /\ ~got("exception") => got("write") \/ got("Error")
                  /\ (/\ d.h.does = "none"
                      /\ d.was.state = "Connected"
                      /\ ~d.r /\ ~d.io.werr /\ ~d.was.werr)
                        => /\ d.res.c.state = "Connected"
                           /\ valid(d.res.c)
                           /\ ~d.res.removed
                           /\ ~d.res.stop
            /\ run.prev.expired /\ ~run.prev.renewed => ~expired(d)

\* The timeout expired in the first iteration, no handler set a new one,
\* and the connection, still Connected, was dispatched again in the second.
TimeoutOnceWitness ==
    /\ run.calls = 2
    /\ run.did.kind = "dispatch"
    /\ run.prev.expired /\ ~run.prev.renewed
    /\ run.did.was.state = "Connected"
    /\ cn[2].state = "Connected"
    /\ times("Timeout") = 0

\* In the call d the entry for op is followed at once by the entry for e.
follows(d, op, e) ==
    \E i \in 1 .. (Len(d.tr) - 1) : d.tr[i].op = op /\ d.tr[i + 1].op = e

\* The call d came to line 361 with the connection in state Connecting.
atConnecting(d) ==
    /\ d.was.state = "Connecting"
    /\ ~(/\ expired(d)
         /\ d.h.on = "Timeout"
         /\ d.h.does \in {"closing", "close", "throw"})

\* C23: dispatch on a Connecting connection.  If it is writable (select()
\* said so, or its timeout expired) and not readable, or Connect is pending,
\* the state is set to Connected and Connect is raised.  Otherwise, if Error
\* is pending, or it is writable and readable and SO_ERROR is not 0, Error
\* is raised, the state is set to Closing (unless the handler throws) and
\* neither read() nor write() is called.  If it is neither readable nor
\* writable and nothing is pending, it stays Connecting and gets neither
\* Connect nor Error.
ConnectingIsResolved ==
    (run.did.kind = "dispatch" /\ atConnecting(run.did)) =>
        LET d == run.did
            w0 == d.w \/ expired(d)
            first == (w0 /\ ~d.r) \/ "Connect" \in d.was.pending
            second == /\ ~first
                      /\ \/ "Error" \in d.was.pending
                         \/ w0 /\ d.r /\ d.io.errval
        IN  /\ first =>
                  /\ follows(d, "Connected", "Connect")
                  /\ ~got("Error")
            /\ second =>
                  /\ got("Error")
                  /\ ~got("Connect")
                  /\ ~got("exception") =>
                         follows(d, "Error", "Closing")
                  /\ ~got("read") /\ ~got("write")
            /\ (~d.r /\ ~w0 /\ d.was.pending = {}) =>
                  /\ d.res.c.state = "Connecting"
                  /\ ~got("Connect") /\ ~got("Error")

\* A Connecting connection came back from select() readable and writable,
\* with a socket error: it got Error and was set to Closing.
ConnectErrorWitness ==
    /\ run.did.kind = "dispatch"
    /\ atConnecting(run.did)
    /\ run.did.was.pending = {}
    /\ run.did.r /\ run.did.w /\ run.did.io.errval
    /\ follows(run.did, "Error", "Closing")

\* C24: in a call of dispatch that no exception ends, a readable connection
\* has read() called and Read raised right after it; if it cannot be read
\* after that, the state is set to Closing and Close is raised, after Read;
\* a writable connection then has write() called, and if the write buffer
\* has an error, the state is set to Closing and Close is raised.
ReadThenWrite ==
    (run.did.kind = "dispatch" /\ ~got("exception")) =>
        LET d == run.did
            n == Len(d.tr)
        IN  /\ d.res.r <=> got("read")
            /\ \A i \in 1 .. n :
                  /\ d.tr[i].op = "read" => i < n /\ d.tr[i + 1].op = "Read"
                  /\ d.tr[i].op = "Read" => i > 1 /\ d.tr[i - 1].op = "read"
            /\ (d.res.r /\ (d.io.eof \/ d.h = [on |-> "Read",
                                                does |-> "close"]))
                  => \E i \in 1 .. (n - 2) :
                         /\ d.tr[i].op = "Read"
                         /\ d.tr[i + 1].op = "Closing"
                         /\ d.tr[i + 2].op = "Close"
            /\ d.res.w <=> got("write")
            /\ got("write") /\ (d.io.werr \/ d.was.werr)
                  => \E i \in 1 .. (n - 2) :
                         /\ d.tr[i].op = "write"
                         /\ d.tr[i + 1].op = "Closing"
                         /\ d.tr[i + 2].op = "Close"

\* The peer had closed: read(), Read, Closing, Close, and then write().
PeerClosedWitness ==
    /\ run.did.kind = "dispatch"
    /\ ~got("exception")
    /\ run.did.io.eof
    /\ follows(run.did, "read", "Read")
    /\ follows(run.did, "Read", "Closing")
    /\ follows(run.did, "Close", "write")

\* C35: a call of dispatch raises at most one Close event for the
\* connection, also when the peer has closed and the write then fails.
AtMostOneClose ==
    run.did.kind = "dispatch" =>
        Cardinality({i \in 1 .. Len(run.did.tr) :
                        run.did.tr[i].op = "Close"}) <= 1

(***************************************************************************)
(* The garbage collection of EventLoop::start.  Allocator::allocated() is  *)
(* the number of bytes allocated since the last Allocator::free(), and     *)
(* Allocator::inUse() the number of bytes in use; both are unsigned 32-bit *)
(* numbers.  Memory is counted in units of 16 bytes (128 KiB are 8192      *)
(* units, 8 MiB are 524288 units, 2^32 bytes are 268435456 units), time in *)
(* seconds.                                                                *)
(***************************************************************************)
MaxGcIterations == 3

\* How long select() and the rest of an iteration take together.
GcSteps == {0, 30, 31}

\* What is allocated between the sample of line 222 and the decision (the
\* log messages of the EBADF branch), and in the rest of an iteration.
AllocatedEarly == {0, 1}

AllocatedLate == {0, 1, 8192, 524289}

InUse == {62500, 3125000}

\* The decision with "at least 60 seconds".
gcDueAtSixty(stop, alloc, allocated, inUse, now, gc) ==
    /\ ~stop
    /\ \/ alloc # 0 /\ allocated = alloc
       \/ /\ allocated > 524288
          /\ (allocated * 5) % 268435456 > inUse
       \/ now - gc >= 60 /\ allocated >= 8192

\* start, line 276-280: whether Allocator::free() is called.  alloc is the
\* sample of line 222, allocated and inUse what the Allocator says now.
gcDue(stop, alloc, allocated, inUse, now, gc) ==
    /\ ~stop
    /\ \/ alloc # 0 /\ allocated = alloc
       \/ /\ allocated > 524288
          /\ (allocated * 5) % 268435456 > inUse
       \/ now - gc > 60 /\ allocated >= 8192

\* start() is called at time 0 (line 153: gc = time(0)); something may
\* have been allocated before.
InitGc ==
    /\ el = LoopData
    /\ cn = <<>>
    /\ tmr = <<>>
    /\ \E a \in AllocatedLate, u \in InUse :
          run = [iter |-> 0, now |-> 0, gc |-> 0, allocated |-> a,
                 inUse |-> u, prevAllocated |-> FALSE,
                 did |-> [kind |-> "none"]]

\* One iteration of start(): select() returns, allocated() is sampled, the
\* select error is seen to, the collector runs or not, and the events are
\* processed, where a handler may call stop().
GcIteration(step, early, late, stop) ==
    /\ ~el.stop
    /\ run.iter < MaxGcIterations
    /\ LET now == run.now + step
           alloc == run.allocated
           allocated == run.allocated + early
           ran == gcDue(el.stop, alloc, allocated, run.inUse, now, run.gc)
       IN  /\ run' = [iter |-> run.iter + 1,
                      now |-> now,
                      gc |-> IF ran THEN now ELSE run.gc,
                      allocated |-> (IF ran THEN 0 ELSE allocated) + late,
                      inUse |-> run.inUse,
                      prevAllocated |-> early + late > 0,
                      did |-> [kind |-> "gc", ran |-> ran, stop |-> el.stop,
                               alloc |-> alloc, allocated |-> allocated,
                               inUse |-> run.inUse, since |-> now - run.gc,
                               early |-> early,
                               prevAllocated |-> run.prevAllocated]]
           /\ el' = [el EXCEPT !.stop = stop]
    /\ UNCHANGED <<cn, tmr, notRun>>

NextGc ==
    \E step \in GcSteps, early \in AllocatedEarly, late \in AllocatedLate,
       stop \in BOOLEAN : GcIteration(step, early, late, stop)

GcInit ==
    IdleMailbox /\ IdleCreator /\ IdleFetcher /\ IdleBatch
    /\ IdleUndelete /\ InitGc /\ IdleFlag
    /\ IdleRound /\ IdleSlots /\ IdleSort /\ IdleHeader

SpecGc == GcInit /\ [][NextGc]_vars

\* (b) of the claim: memory use grew by more than 20% and by more than
\* 8 MiB since the last collection.
grewMuch(d) == d.allocated > 524288 /\ d.allocated * 5 > d.inUse

MaxCreates == 2
MaxFlagId == 3

FlagNames == {"a", "A", "b"}

\* The lists Flag::create is called with.
FlagLists == {<<>>, <<"a">>, <<"b">>, <<"A", "a">>, <<"a", "b">>}

\* Flag::id on cache ch (lowercased name -> id; 0 is "not known").
flagId(ch, name) == ch[lower(name)]

\* Flag::add.
flagAdd(ch, name, id) == [ch EXCEPT ![lower(name)] = id]

\* The loop of FlagFetcher::execute over the rows rs of the result.
RECURSIVE flagAddAll(_, _)
flagAddAll(ch, rs) ==
    IF rs = {} THEN ch
    ELSE LET r == CHOOSE x \in rs : \A y \in rs : x.id >= y.id
         IN  flagAdd(flagAddAll(ch, rs \ {r}), r.name, r.id)

\* The largest id among the rows rs, or 0: FlagFetcher's max.
maxId(rs) ==
    IF rs = {} THEN 0 ELSE CHOOSE n \in {r.id : r \in rs} :
                               \A r \in rs : n >= r.id

\* "insert into flag_names (name) values ($1)" on the table: the row gets
\* the next id of the sequence; the statement fails when the name is there.
insertFlag(f, name) ==
    IF \E r \in f.table : r.name = name
    THEN [f EXCEPT !.seq = @ + 1]
    ELSE [f EXCEPT !.seq = @ + 1,
                   !.table = @ \cup {[id |-> f.seq, name |-> name]}]

\* The FlagFetcher's constructor: the query is sent with largestFlagId.
FlagFetcher(f) == [f EXCEPT !.fetch = "sent", !.bound = f.largest]

\* FlagCreator::execute: the queries that are done leave the list; when none
\* is left, a FlagFetcher is made.
FlagCreatorExecute(f) ==
    LET rest == SelectSeq(f.queries, LAMBDA q : ~q.done)
        g == [f EXCEPT !.queries = rest]
    IN  IF rest = <<>> THEN FlagFetcher(g) ELSE g

\* FlagFetcher::execute when its query is done with the rows rs.
FlagFetcherExecute(f, rs) ==
    [f EXCEPT !.byName = flagAddAll(@, rs),
              !.largest = maxId(rs),
              !.fetch = "done",
              !.told = TRUE]

\* Flag::setup has run on an empty table.
InitFlag ==
    fl = [flags |-> <<>>, queries |-> <<>>, fetch |-> "none", bound |-> 0,
          told |-> FALSE, creates |-> 0, table |-> {}, pending |-> {},
          seq |-> 1, byName |-> [n \in {lower(x) : x \in FlagNames} |-> 0],
          largest |-> 0]

\* Flag::create( flags, owner ): the FlagCreator's constructor sends an INSERT
\* for each flag.
FlagCreate(flags) ==
    /\ fl.creates < MaxCreates
    /\ fl.queries = <<>> /\ fl.fetch # "sent"
    /\ fl.creates > 0 => fl.told
    /\ fl' = [fl EXCEPT !.flags = flags,
                        !.queries = [i \in DOMAIN flags |->
                                        [name |-> flags[i], done |-> FALSE]],
                        !.fetch = "none",
                        !.told = FALSE,
                        !.creates = @ + 1]
    /\ UNCHANGED notFlag

\* The database runs the INSERT in queries[i] and answers; the Query
\* executes its owner, the FlagCreator.
InsertAnswer(i) ==
    /\ i \in DOMAIN fl.queries
    /\ LET f1 == insertFlag(fl, fl.queries[i].name)
           f2 == [f1 EXCEPT !.queries[i].done = TRUE]
       IN  fl' = FlagCreatorExecute(f2)
    /\ UNCHANGED notFlag

\* The database answers the FlagFetcher's query with the rows that are
\* committed and have id >= $1; the Query executes the FlagFetcher.
SelectAnswer ==
    /\ fl.fetch = "sent"
    /\ fl' = FlagFetcherExecute(fl, {r \in fl.table : r.id >= fl.bound})
    /\ UNCHANGED notFlag

\* Another server starts to insert a flag: its row has an id, and is not
\* yet committed.
OtherInsert(name) ==
    /\ fl.seq <= MaxFlagId
    /\ fl.pending = {}
    /\ fl' = [fl EXCEPT !.seq = @ + 1,
                        !.pending = {[id |-> fl.seq, name |-> name]}]
    /\ UNCHANGED notFlag

\* The other server's INSERT is done: the row is in the table, unless the
\* name got there before it.
OtherCommit ==
    /\ fl.pending # {}
    /\ fl' = [fl EXCEPT
                 !.pending = {},
                 !.table = @ \cup {r \in fl.pending :
                                     \A x \in fl.table : x.name # r.name}]
    /\ UNCHANGED notFlag

DbAnswers ==
    \/ \E i \in 1 .. 2 : InsertAnswer(i)
    \/ SelectAnswer

NextFlag ==
    \/ \E flags \in FlagLists : FlagCreate(flags)
    \/ \E i \in 1 .. 2 : InsertAnswer(i)
    \/ SelectAnswer
    \/ \E name \in FlagNames : OtherInsert(name)
    \/ OtherCommit

FlagInit ==
    IdleMailbox /\ IdleCreator /\ IdleFetcher /\ IdleBatch
    /\ IdleUndelete /\ IdleLoop /\ IdleRun /\ InitFlag
    /\ IdleRound /\ IdleSlots /\ IdleSort /\ IdleHeader

\* The database answers every query it was sent.
SpecFlag == FlagInit /\ [][NextFlag]_vars /\ WF_vars(DbAnswers)

\* When the owner is executed, every INSERT is done, the table has been
\* read again and Flag::id knows every flag of the list.
OwnerToldWhenKnown ==
    fl.told =>
        /\ fl.queries = <<>>
        /\ fl.fetch = "done"
        /\ \A i \in DOMAIN fl.flags :
              /\ \E r \in fl.table : r.name = fl.flags[i]
              /\ flagId(fl.byName, fl.flags[i]) # 0

\* C20: after Flag::create( flags, owner ) the owner is executed at last,
\* for every list of flags, and when it is, every INSERT is done, the table
\* has been read again and Flag::id is not 0 for any flag of the list.
CreateTellsOwner ==
    /\ [](fl.creates > 0 => <>fl.told)
    /\ []OwnerToldWhenKnown

(***************************************************************************)
(* Bodypart (message/bodypart.cpp): a message is parsed, written out with  *)
(* asText and parsed again.  A String is a sequence of bytes, each held as *)
(* a symbol, and positions count from 0 as in the code.  "n" is the end of *)
(* a line (the code takes a bare LF for one), "-" a hyphen, "x" a 7-bit    *)
(* character of text, "k" a byte of data; a header field with the          *)
(* boundary, if any, is held as one symbol, followed by "n"; the base64    *)
(* form of a byte c is held as the symbol "6" \o c.  Charsets other than   *)
(* us-ascii, quoted-printable text and multipart/digest are left out.      *)
(***************************************************************************)
\* String::operator[]: the byte at position i, or 0 beyond the end.
at(s, i) == IF i < Len(s) THEN s[i + 1] ELSE "0"

\* String::mid( start, num ): num bytes from position start, or as many as
\* there are.
mid(s, from, num) ==
    IF from >= Len(s) \/ num <= 0 THEN <<>>
    ELSE SubSeq(s, from + 1, min(from + num, Len(s)))

\* The bytes a message is made of, their base64 forms, and the base64
\* forms of those.
Bytes == {"n", "-", "b", "c", "x", "k", "text/plain", "message/rfc822",
          "application/octet-stream", "base64", "multipart/mixed;b",
          "multipart/mixed;c"}

e64Byte(c) == "6" \o c

Base64Bytes == {e64Byte(c) : c \in Bytes \cup {e64Byte(b) : b \in Bytes}}

\* String::e64( 72 ): the base64 form in lines.
e64(data) ==
    IF data = <<>> THEN <<>>
    ELSE [i \in DOMAIN data |-> e64Byte(data[i])] \o <<"n">>

\* String::de64: what is not base64 is skipped.
RECURSIVE de64(_)
de64(s) ==
    IF s = <<>> THEN <<>>
    ELSE IF Head(s) \in Base64Bytes
    THEN <<CHOOSE c \in Bytes \cup {e64Byte(b) : b \in Bytes} :
               e64Byte(c) = Head(s)>> \o de64(Tail(s))
    ELSE de64(Tail(s))

\* String::decode( e ).
stringDecode(s, e) == IF e = "Base64" THEN de64(s) ELSE s

\* AsciiCodec on 7-bit text: each byte is the character of the same number.
toUnicode(s) == [i \in DOMAIN s |-> s[i]]

fromUnicode(u) == [i \in DOMAIN u |-> u[i]]

\* A Header, as far as Bodypart looks at it: the Content-Type (type and
\* subtype, "" for none), its boundary, the Content-Transfer-Encoding.
NoHeader == [ct |-> "", boundary |-> "", cte |-> ""]

HeaderFields == {"text/plain", "message/rfc822", "application/octet-stream",
                 "base64", "multipart/mixed;b", "multipart/mixed;c"}

ctType(h) ==
    CASE h.ct = "text/plain" -> "text"
      [] h.ct = "message/rfc822" -> "message"
      [] h.ct = "multipart/mixed" -> "multipart"
      [] h.ct = "application/octet-stream" -> "application"
      [] OTHER -> ""

\* Header::add, for a field read from a message.
addField(h, f) ==
    CASE f = "base64" -> [h EXCEPT !.cte = "base64"]
      [] f = "multipart/mixed;b" ->
             [h EXCEPT !.ct = "multipart/mixed", !.boundary = "b"]
      [] f = "multipart/mixed;c" ->
             [h EXCEPT !.ct = "multipart/mixed", !.boundary = "c"]
      [] OTHER -> [h EXCEPT !.ct = f]

\* Message::parseHeader( i, end, rfc2822, mode ): the fields from position
\* i on, and the position of the first line that is not a field.
RECURSIVE parseHeader(_, _, _, _)
parseHeader(h, i, end, s) ==
    IF i + 1 < end /\ at(s, i) \in HeaderFields /\ at(s, i + 1) = "n"
    THEN parseHeader(addField(h, at(s, i)), i + 2, end, s)
    ELSE [h |-> h, i |-> i]

\* Header::asText: the fields in order.
headerText(h) ==
    (IF h.ct = "" THEN <<>>
     ELSE IF h.ct = "multipart/mixed"
     THEN <<"multipart/mixed;" \o h.boundary, "n">>
     ELSE <<h.ct, "n">>)
    \o (IF h.cte = "" THEN <<>> ELSE <<h.cte, "n">>)

\* Header::simplify, line 480-513, with defaultType TextPlain: a
\* Content-Type text/plain without parameters goes when there is no
\* Content-Transfer-Encoding.
simplify(h) ==
    IF h.ct = "text/plain" /\ h.cte = "" THEN [h EXCEPT !.ct = ""] ELSE h

\* parseMultiPart, line 326-329: to the start of the next line that is not
\* empty.
RECURSIVE toLineEnd(_, _, _)
toLineEnd(s, i, end) ==
    IF i < end /\ at(s, i) # "n" THEN toLineEnd(s, i + 1, end) ELSE i

RECURSIVE overLineEnds(_, _, _)
overLineEnds(s, i, end) ==
    IF i < end /\ at(s, i) = "n" THEN overLineEnds(s, i + 1, end) ELSE i

\* The embedded message of a message/rfc822 part that lies at start..end:
\* line 443 hands mid( start, end ) to the Message.
embedded(s, from, end) == mid(s, from, end)

RECURSIVE parseMultiPart(_, _, _, _)
RECURSIVE parseBodypart(_, _, _, _)
RECURSIVE parseMessage(_)

\* Bodypart::parseMultiPart; a holds the loop's i, start, last and pn and
\* the children so far.
parseMultiPart(a, end, s, divider) ==
    IF a.last \/ ~(a.i < end) THEN a.children
    ELSE LET i == a.i
             boundary ==
                 /\ at(s, i) = "-" /\ at(s, i + 1) = "-"
                 /\ (i = 0 \/ at(s, i - 1) = "n")
                 /\ divider # <<>> /\ at(s, i + 2) = divider[1]
                 /\ mid(s, i + 2, Len(divider)) = divider
             j0 == i + 2 + Len(divider)
             l == at(s, j0) = "-" /\ at(s, j0 + 1) = "-"
             j1 == IF l THEN j0 + 2 ELSE j0
             j == j1 + 1
             a1 == IF ~(boundary /\ at(s, j1) = "n") THEN a
                   ELSE IF a.start > 0
                   THEN LET ph == parseHeader(NoHeader, a.start, j, s)
                            h == IF ph.h.ct # "" THEN ph.h
                                 ELSE [ph.h EXCEPT !.ct = "text/plain"]
                            e == IF at(s, i - 1) = "n" THEN i - 1 ELSE i
                            bp == parseBodypart(ph.i, e, s, h)
                        IN  [i |-> j, start |-> j, last |-> l,
                             pn |-> a.pn + 1,
                             children |->
                                 Append(a.children,
                                        [bp EXCEPT !.number = a.pn])]
                   ELSE [a EXCEPT !.i = j, !.start = j, !.last = l]
         IN  parseMultiPart(
                 [a1 EXCEPT !.i = overLineEnds(s, toLineEnd(s, a1.i, end),
                                               end)],
                 end, s, divider)

\* Bodypart::parseBodypart.
parseBodypart(from, end, s, h) ==
    LET st == IF at(s, from) = "n" THEN from + 1 ELSE from
        e == IF h.cte = "base64" THEN "Base64" ELSE "Binary"
        body == IF end > st THEN stringDecode(mid(s, st, end - st), e)
                ELSE <<>>
        isText == h.ct = "" \/ ctType(h) = "text"
        h1 == IF isText THEN simplify([h EXCEPT !.cte = ""])
              ELSE IF ctType(h) \notin {"multipart", "message"}
              THEN simplify([h EXCEPT !.cte = "base64"])
              ELSE h
        m == IF h.ct = "message/rfc822"
             THEN parseMessage(embedded(s, st, end)) ELSE <<>>
    IN  [number |-> 1,
         header |-> h1,
         hasText |-> isText,
         text |-> IF isText THEN toUnicode(body) ELSE <<>>,
         data |-> IF isText THEN <<>> ELSE body,
         children |->
             IF ctType(h) = "multipart"
             THEN parseMultiPart([i |-> st, start |-> 0, last |-> FALSE,
                                  pn |-> 1, children |-> <<>>],
                                 end, s, <<h.boundary>>)
             ELSE IF h.ct = "message/rfc822" THEN m.children
             ELSE <<>>,
         rfc822 |-> m]

\* Message::Message( rfc2822 ): the header in Rfc2822 mode, then the body;
\* a multipart's parts, or else the one Bodypart, are the children.
parseMessage(s) ==
    LET ph == parseHeader(NoHeader, 0, Len(s), s)
        bp == parseBodypart(ph.i, Len(s), s, ph.h)
    IN  [header |-> bp.header,
         children |-> IF ctType(ph.h) = "multipart" THEN bp.children
                      ELSE <<bp>>,
         root |-> bp]

RECURSIVE asText(_)
RECURSIVE appendMultipart(_, _)
RECURSIVE appendAnyPart(_)
RECURSIVE rfc822(_)

\* Bodypart::asText.
asText(bp) ==
    IF bp.children # <<>> THEN appendMultipart(bp.header.boundary, bp.children)
    ELSE IF bp.header.ct = "" \/ ctType(bp.header) = "text"
    THEN fromUnicode(bp.text)
    ELSE e64(bp.data)

\* Multipart::appendMultipart: the boundary between the children.
appendMultipart(d, children) ==
    IF children = <<>> THEN <<"-", "-", d, "-", "-", "n">>
    ELSE <<"-", "-", d, "n">>
         \o headerText(Head(children).header) \o <<"n">>
         \o appendAnyPart(Head(children)) \o <<"n">>
         \o appendMultipart(d, Tail(children))

\* A part of any kind: a message/rfc822 part is its message.
appendAnyPart(bp) ==
    IF bp.header.ct = "message/rfc822" THEN rfc822(bp.rfc822)
    ELSE asText(bp)

\* Message::rfc822: the header, an empty line, the body.
rfc822(m) ==
    headerText(m.header) \o <<"n">> \o appendAnyPart(m.root)

\* What the round trip is to keep of a Bodypart: the number, the
\* Content-Type, the children, and a leaf's text or bytes.
RECURSIVE view(_)
view(bp) ==
    [number |-> bp.number,
     ct |-> bp.header.ct,
     children |-> [i \in DOMAIN bp.children |-> view(bp.children[i])],
     content |-> IF bp.children # <<>> THEN <<>>
                 ELSE IF bp.hasText THEN bp.text ELSE bp.data]

\* The messages: entities are a header, an empty line and a body.
Texts == {<<>>, <<"x">>, <<"x", "n">>, <<"x", "n", "x">>}

TextParts ==
    {hd \o <<"n">> \o t : hd \in {<<>>, <<"text/plain", "n">>}, t \in Texts}

DataPart ==
    <<"application/octet-stream", "n", "base64", "n", "n", "6k", "n">>

EncodedTextPart == <<"text/plain", "n", "base64", "n", "n", "6x", "n">>

RECURSIVE delimited(_, _)
delimited(d, parts) ==
    IF parts = <<>> THEN <<"-", "-", d, "-", "-", "n">>
    ELSE <<"-", "-", d, "n">> \o Head(parts) \o <<"n">>
         \o delimited(d, Tail(parts))

multipart(d, parts) ==
    <<"multipart/mixed;" \o d, "n", "n">> \o delimited(d, parts)

message(e) == <<"message/rfc822", "n", "n">> \o e

Leaves == TextParts \cup {DataPart, EncodedTextPart}

FewLeaves == {<<"n", "x">>, <<"text/plain", "n", "n", "x", "n">>, DataPart}

Singles ==
    Leaves \cup {multipart("b", <<p>>) : p \in Leaves}
           \cup {multipart("b", <<p, q>>) : p \in FewLeaves, q \in FewLeaves}
           \cup {message(p) : p \in Leaves}

Nested ==
    {multipart("b", <<p>>) : p \in FewLeaves}
    \cup {message(p) : p \in FewLeaves}

\* Messages that are not well formed: a multipart without a boundary line,
\* one whose last boundary is not closed, and one with text before the
\* first boundary and after the last.
Malformed ==
    {<<"multipart/mixed;b", "n", "n">>,
     <<"multipart/mixed;b", "n", "n", "x", "n">>,
     <<"multipart/mixed;b", "n", "n", "-", "-", "b", "n", "n", "x", "n">>,
     <<"multipart/mixed;b", "n", "n", "x", "n">>
         \o delimited("b", <<<<"n", "x">>>>) \o <<"x", "n">>}

Messages ==
    Singles
    \cup {multipart("c", <<p, q>>) : p \in Nested, q \in FewLeaves}
    \cup {multipart("c", <<q, p>>) : p \in Nested, q \in FewLeaves}
    \cup Malformed

InitRound ==
    \E m \in Messages :
        rt = [pc |-> "new", m |-> m, first |-> <<>>, text |-> <<>>,
              second |-> <<>>]

\* The message is parsed.
Parse ==
    /\ rt.pc = "new"
    /\ rt' = [rt EXCEPT !.pc = "parsed", !.first = parseMessage(rt.m)]
    /\ UNCHANGED notRound

\* The Message is written out.
AsText ==
    /\ rt.pc = "parsed"
    /\ rt' = [rt EXCEPT !.pc = "written", !.text = rfc822(rt.first)]
    /\ UNCHANGED notRound

\* What was written is parsed.
Reparse ==
    /\ rt.pc = "written"
    /\ rt' = [rt EXCEPT !.pc = "reparsed", !.second = parseMessage(rt.text)]
    /\ UNCHANGED notRound

NextRound == Parse \/ AsText \/ Reparse

RoundInit ==
    IdleMailbox /\ IdleCreator /\ IdleFetcher /\ IdleBatch
    /\ IdleUndelete /\ IdleLoop /\ IdleRun /\ IdleFlag
    /\ InitRound /\ IdleSlots /\ IdleSort /\ IdleHeader

SpecRound == RoundInit /\ [][NextRound]_vars

\* C21: the Message parsed from what asText wrote has the same tree of
\* Bodyparts as the Message it was written from: at every node the same
\* number, the same Content-Type and as many children, and in every leaf
\* the same text or the same bytes.
RoundTripKeepsTree ==
    rt.pc = "reparsed" => view(rt.second.root) = view(rt.first.root)

(***************************************************************************)
(* The Mailbox's Fetchers (mailbox.cpp).  MailboxData has one Fetcher      *)
(* pointer for each class of data; 0 is the null pointer and any other     *)
(* number is the Fetcher object of that number in mf.objs.                 *)
(***************************************************************************)

\* How many Fetcher objects are created.
MaxFetchers == 3

\* The sessions that have the Mailbox open; a session asks for its own
\* messages and is the handler of what it asks for.
Sessions == 1 .. 2

\* The five pointers of MailboxData, in the order Mailbox::forget looks
\* at them.
Slots ==
    <<"headerFetcher", "flagFetcher", "bodyFetcher", "triviaFetcher",
      "annotationFetcher">>

SlotNames == {Slots[i] : i \in 1 .. Len(Slots)}

NoFetchers == [k \in SlotNames |-> 0]

\* Fetcher::insert: the messages and their handler join what the Fetcher
\* is to fetch.
insert(f, messages, handler) ==
    [f EXCEPT !.wanted = @ \cup {<<u, handler>> : u \in messages}]

\* What forget would do if it dropped every Fetcher the Mailbox has.
forgetEvery(m, f) == [m EXCEPT !.d = NoFetchers]

\* Mailbox::fetchHeaders, fetchTrivia, fetchBodies, fetchFlags and
\* fetchAnnotations differ in the pointer they use, k.
fetchWith(m, k, messages, handler) ==
    LET n == IF m.d[k] = 0 THEN Len(m.objs) + 1 ELSE m.d[k]
        objs == IF m.d[k] = 0
                THEN Append(m.objs, [slot |-> k, wanted |-> {}])
                ELSE m.objs
    IN  [m EXCEPT !.d[k] = n,
                  !.objs = [objs EXCEPT ![n] = insert(@, messages, handler)]]

\* Mailbox::forget: the first pointer that is f becomes null.
forget(m, f) ==
    LET hits == {i \in 1 .. Len(Slots) : m.d[Slots[i]] = f}
    IN  IF hits = {}
        THEN m
        ELSE LET i == CHOOSE h \in hits : \A g \in hits : h <= g
             IN  [m EXCEPT !.d[Slots[i]] = 0]

InitSlots ==
    mf = [d |-> NoFetchers, objs |-> <<>>, did |-> [op |-> "none"]]

\* A session fetches one class of data for its messages.
Fetch(k, session) ==
    /\ mf.d[k] # 0 \/ Len(mf.objs) < MaxFetchers
    /\ mf' = [fetchWith(mf, k, {session}, session)
                EXCEPT !.did = [op |-> "fetch", slot |-> k,
                                session |-> session]]
    /\ UNCHANGED notSlots

\* A Fetcher that has fetched all it was to fetch has itself forgotten;
\* f is any Fetcher there ever was, or null.
Forget(f) ==
    /\ mf' = [forget(mf, f)
                EXCEPT !.objs = [i \in 1 .. Len(mf.objs) |->
                                    IF i = f
                                    THEN [mf.objs[i] EXCEPT !.wanted = {}]
                                    ELSE mf.objs[i]],
                       !.did = [op |-> "forget", f |-> f]]
    /\ UNCHANGED notSlots

NextSlots ==
    \/ \E k \in SlotNames, session \in Sessions : Fetch(k, session)
    \/ \E f \in 0 .. Len(mf.objs) : Forget(f)

SlotsInit ==
    IdleMailbox /\ IdleCreator /\ IdleFetcher /\ IdleBatch
    /\ IdleUndelete /\ IdleLoop /\ IdleRun /\ IdleFlag
    /\ IdleRound /\ InitSlots /\ IdleSort /\ IdleHeader

SpecSlots == SlotsInit /\ [][NextSlots]_vars

\* C33: each class has one pointer, so at most one Fetcher.  A fetch call
\* leaves the other classes' pointers alone; if its own pointer is set, it
\* keeps it and the messages go to that Fetcher, and if it is null, a
\* Fetcher that did not exist before is created and gets the messages.
\* forget(f) makes the pointer that is f null and changes no other.
OneFetcherPerClass ==
    [][/\ mf'.did.op = "fetch" =>
            LET k == mf'.did.slot
                s == mf'.did.session
            IN  /\ \A j \in SlotNames \ {k} : mf'.d[j] = mf.d[j]
                /\ mf.d[k] # 0 =>
                    /\ mf'.d[k] = mf.d[k]
                    /\ Len(mf'.objs) = Len(mf.objs)
                    /\ mf'.objs[mf.d[k]].wanted
                         = mf.objs[mf.d[k]].wanted \cup {<<s, s>>}
                /\ mf.d[k] = 0 =>
                    /\ mf'.d[k] = Len(mf.objs) + 1
                    /\ Len(mf'.objs) = Len(mf.objs) + 1
                    /\ mf'.objs[mf'.d[k]].wanted = {<<s, s>>}
                /\ \A i \in 1 .. Len(mf.objs) :
                    i # mf.d[k] => mf'.objs[i] = mf.objs[i]
       /\ mf'.did.op = "forget" =>
            /\ \A i \in 1 .. Len(mf.objs) :
                i # mf'.did.f => mf'.objs[i] = mf.objs[i]
            /\ \A j \in SlotNames :
                mf'.d[j] = IF mf.d[j] = mf'.did.f /\ mf'.did.f # 0
                           THEN 0
                           ELSE mf.d[j]]_vars

\* A Fetcher was forgotten, the next fetch of its class made a new one,
\* and another class has had its Fetcher all the while.
NewFetcherAfterForgetWitness ==
    /\ mf.did.op = "fetch"
    /\ \E i, j \in 1 .. Len(mf.objs) :
        /\ i < j
        /\ mf.objs[i].slot = mf.objs[j].slot
        /\ mf.d[mf.objs[j].slot] = j
        /\ \E h \in 1 .. Len(mf.objs) :
            /\ h < i
            /\ mf.d[mf.objs[h].slot] = h
            /\ Cardinality(mf.objs[h].wanted) = 2

(***************************************************************************)
(* The SORT command (imap/handlers/sort.cpp).  A String of SQL is held as  *)
(* the sequence of its pieces: every blank and every comma is a piece of   *)
(* its own, and so is every "where", "order", "by" and "mm.uid", so that   *)
(* String::find of one of the texts addJoin looks for finds it wherever    *)
(* the characters are.  The number of a header field and of a placeholder  *)
(* is one piece.                                                           *)
(***************************************************************************)

Where == <<" ", "where", " ">>
OrderBy == <<" ", "order", " ", "by", " ">>
MmUid == <<"mm.uid">>

\* String::find( s ): where s first starts in t, counted from 0, or -1.
stringFind(t, s) ==
    LET hits == {i \in 0 .. Len(t) - Len(s) :
                    SubSeq(t, i + 1, i + Len(s)) = s}
    IN  IF hits = {} THEN 0 - 1
        ELSE CHOOSE i \in hits : \A j \in hits : i <= j

\* String::mid( start ): all of t from start on.
midToEnd(t, from) == mid(t, from, Len(t))

\* fn( n ) for the small numbers there are.
fn(n) == <<"0", "1", "2", "3", "4", "5", "6", "7", "8", "9">>[n + 1]

\* The loop of addJoin that walks back from the end to the last comma
\* behind position o, or to o.
lastComma(t, o) ==
    LET commas == {c \in o + 1 .. Len(t) : at(t, c) = ","}
    IN  IF commas = {} THEN o
        ELSE CHOOSE c \in commas : \A e \in commas : e <= c

\* SortData::addJoin
addJoin(t, join, orderby, desc) ==
    LET w == stringFind(t, Where)
        t1 == mid(t, 0, w + 1) \o join \o midToEnd(t, w + 1)
        o == stringFind(t1, OrderBy) + Len(OrderBy)
        c == lastComma(t1, o)
        t2 == IF c > o
              THEN mid(t1, 0, c) \o <<",", " ">> \o orderby
                   \o (IF desc THEN <<" ", "desc">> ELSE <<>>)
                   \o midToEnd(t1, c)
              ELSE mid(t1, 0, o) \o orderby
                   \o (IF desc THEN <<" ", "desc", ",", " ">>
                       ELSE <<",", " ">>)
                   \o midToEnd(t1, o)
        s == stringFind(t2, MmUid) + Len(MmUid)
    IN  IF w < 0 THEN t
        ELSE IF stringFind(t1, OrderBy) < 0 THEN t1
        ELSE IF stringFind(t2, MmUid) < 0 THEN t2
        ELSE mid(t2, 0, s) \o <<",", " ">> \o orderby \o midToEnd(t2, s)

\* The texts SortData::addCondition hands to addJoin.
addressJoin(af, a, field) ==
    <<"left", " ", "join", " ", "address_fields", " ", af, " ", "on", " ",
      "(mm.message=" \o af \o ".message", " ", "and", " ", " ",
      af \o ".part=''", " ", "and", " ", af \o ".number=0", " ", "and",
      " ", af \o ".field=", field, ")", " ",
      "left", " ", "join", " ", "addresses", " ", a, " ", "on", " ",
      "(" \o af \o ".address=" \o a \o ".id)", " ">>

innerAddressJoin(af, a, field) ==
    <<"join", " ", "address_fields", " ", af, " ", "on", " ",
      "(mm.message=" \o af \o ".message", " ", "and", " ", " ",
      af \o ".part=''", " ", "and", " ", af \o ".number=0", " ", "and",
      " ", af \o ".field=", field, ")", " ",
      "join", " ", "addresses", " ", a, " ", "on", " ",
      "(" \o af \o ".address=" \o a \o ".id)", " ">>

annotationJoin(owner, b1) ==
    <<"left", " ", "join", " ", "annotations", " ", "saa", " ", "on", " ",
      "(mm.mailbox=saa.mailbox", " ", "and", " ", "mm.uid", "=saa.uid",
      " ", "and", " ">> \o owner \o
    <<" ", "and", " ", "name=(select", " ", "id", " ", "from", " ",
      "annotation_names", " ", "where", " ", "lower(name)=$", fn(b1),
      "))", " ">>

sortJoin(c) ==
    CASE c.t = "Arrival" -> <<>>
      [] c.t = "Cc" -> addressJoin("sccaf", "scca", "HeaderField::Cc")
      [] c.t = "Date" ->
            <<"join", " ", "date_fields", " ", "sddf", " ", "on", " ",
              "(mm.message=sddf.message)", " ">>
      [] c.t = "From" ->
            innerAddressJoin("sfaf", "sfa", "HeaderField::From")
      [] c.t = "Size" ->
            <<"join", " ", "messages", " ", "m", " ", "on", " ",
              "(m.id=mm.message)">>
      [] c.t = "Subject" ->
            <<"left", " ", "join", " ", "thread_members", " ", "sstm", " ",
              "on", " ", "(mm.mailbox=sstm.mailbox", " ", "and", " ",
              "mm.uid", "=sstm.uid)", " ", "left", " ", "join", " ",
              "threads", " ", "sst", " ", "on", " ", "(sstm.thread=sst.id)",
              " ">>
      [] c.t = "To" -> addressJoin("staf", "sta", "HeaderField::To")
      [] c.t = "Annotation" ->
            IF c.priv
            THEN annotationJoin(<<"owner=$", fn(c.b2)>>, c.b1)
            ELSE annotationJoin(<<"owner", " ", "is", " ", "null">>, c.b1)

sortOrderBy(c) ==
    CASE c.t = "Arrival" -> <<"mm.idate">>
      [] c.t = "Cc" -> <<"scca.localpart">>
      [] c.t = "Date" -> <<"sddf.value">>
      [] c.t = "From" -> <<"sfa.localpart">>
      [] c.t = "Size" -> <<"m.rfc822size">>
      [] c.t = "Subject" -> <<"lower(sst.subject)">>
      [] c.t = "To" -> <<"sta.localpart">>
      [] c.t = "Annotation" -> <<"saa.value">>

\* SortData::addCondition
addCondition(t, c) == addJoin(t, sortJoin(c), sortOrderBy(c), c.reverse)

\* SortData::usingCriterionType
usingCriterionType(c, t) == \E i \in 1 .. Len(c) : c[i].t = t

\* The loop of Sort::parse over the criteria of the command.
RECURSIVE parseCriteria(_, _)
parseCriteria(c, given) ==
    IF given = <<>> THEN c
    ELSE parseCriteria(IF usingCriterionType(c, Head(given).t)
                       THEN c
                       ELSE Append(c, Head(given)),
                       Tail(given))

\* The loop of Sort::execute: an annotation criterion takes the Selector's
\* next placeholders, and each criterion is added to the query's text.
RECURSIVE addConditions(_, _, _)
addConditions(t, c, placeHolder) ==
    IF c = <<>> THEN t
    ELSE LET h == Head(c)
             n == IF h.t # "Annotation" THEN 0
                  ELSE IF h.priv THEN 2 ELSE 1
             bound == [h EXCEPT !.b1 = IF n > 0 THEN placeHolder + 1 ELSE 0,
                                !.b2 = IF n > 1 THEN placeHolder + 2 ELSE 0]
         IN  addConditions(addCondition(t, bound), Tail(c), placeHolder + n)

\* What Selector::query makes of a search key: for ALL, and for a key
\* that needs a join and a condition of its own.  $1 is the mailbox.
SelectorQueries ==
    {[string |-> <<"select", " ", "distinct", " ", "mm.uid", " ", "from",
                   " ", "mailbox_messages", " ", "mm", " ", "where", " ",
                   "mm.mailbox=$1", " ", "order", " ", "by", " ", "mm.uid">>,
      placeHolder |-> 1],
     [string |-> <<"select", " ", "distinct", " ", "mm.uid", " ", "from",
                   " ", "mailbox_messages", " ", "mm", " ", "join", " ",
                   "bodyparts", " ", "bp", " ", "on", " ",
                   "(bp.id=pn.bodypart)", " ", "where", " ",
                   "mm.mailbox=$1", " ", "and", " ", "bp.text", " ",
                   "ilike", " ", "$2", " ", "order", " ", "by", " ",
                   "mm.uid">>,
      placeHolder |-> 2]}

SortTypes ==
    {"Arrival", "Cc", "Date", "From", "Size", "Subject", "To", "Annotation"}

SortCriterion(t, reverse, priv) ==
    [t |-> t, reverse |-> reverse, priv |-> priv, b1 |-> 0, b2 |-> 0]

SortCriteria ==
    {SortCriterion(t, r, FALSE) : t \in SortTypes, r \in BOOLEAN}
    \cup {SortCriterion("Annotation", r, TRUE) : r \in BOOLEAN}

\* The criteria of a SORT command: one, two, or three of which two have
\* the same type.
SortCommands ==
    {<<a>> : a \in SortCriteria}
    \cup {<<a, b>> : a, b \in SortCriteria}
    \cup {<<a, b, SortCriterion(a.t, ~a.reverse, FALSE)>> :
            a \in SortCriteria, b \in {SortCriterion("Date", FALSE, FALSE)}}

InitSort ==
    \E given \in SortCommands, q \in SelectorQueries :
        sq = [pc |-> "new", given |-> given, q |-> q, c |-> <<>>,
              t |-> <<>>]

\* Sort::parse
SortParse ==
    /\ sq.pc = "new"
    /\ sq' = [sq EXCEPT !.pc = "parsed", !.c = parseCriteria(<<>>, sq.given)]
    /\ UNCHANGED notSort

\* Sort::execute, up to the query's execution.
SortExecute ==
    /\ sq.pc = "parsed"
    /\ sq' = [sq EXCEPT !.pc = "executed",
                        !.t = addConditions(sq.q.string, sq.c,
                                            sq.q.placeHolder)]
    /\ UNCHANGED notSort

NextSort == SortParse \/ SortExecute

SortInit ==
    IdleMailbox /\ IdleCreator /\ IdleFetcher /\ IdleBatch
    /\ IdleUndelete /\ IdleLoop /\ IdleRun /\ IdleFlag
    /\ IdleRound /\ IdleSlots /\ InitSort /\ IdleHeader

SpecSort == SortInit /\ [][NextSort]_vars

\* The sort expressions of a list of criteria as they stand in an ORDER BY
\* list, each with its comma.
RECURSIVE orderByList(_)
orderByList(c) ==
    IF c = <<>> THEN <<>>
    ELSE sortOrderBy(Head(c))
         \o (IF Head(c).reverse THEN <<" ", "desc">> ELSE <<>>)
         \o <<",", " ">> \o orderByList(Tail(c))

\* The first criterion of each type of a command.
firstOfEachType(given) ==
    LET keep == {i \in 1 .. Len(given) :
                    \A j \in 1 .. i - 1 : given[j].t # given[i].t}
        RECURSIVE pick(_)
        pick(i) == IF i > Len(given) THEN <<>>
                   ELSE (IF i \in keep THEN <<given[i]>> ELSE <<>>)
                        \o pick(i + 1)
    IN  pick(1)

\* C34: the ORDER BY list of the query is the sort expressions of the
\* command's criteria, in the command's order and one for each type, each
\* followed by desc exactly if it is reversed, and then the Selector's own
\* ordering; and each expression stands in the SELECT list.
OrderByFollowsCriteria ==
    sq.pc = "executed" =>
        LET o == stringFind(sq.t, OrderBy) + Len(OrderBy)
            from == stringFind(sq.t, <<" ", "from", " ">>)
            c == firstOfEachType(sq.given)
        IN  /\ midToEnd(sq.t, o) = orderByList(c) \o MmUid
            /\ \A i \in 1 .. Len(c) :
                \E k \in 1 .. from :
                    SubSeq(sq.t, k, k + 2)
                        = <<",", " ">> \o sortOrderBy(c[i])

(***************************************************************************)
(* Flag::add, Flag::id and Flag::name by themselves (message/flag.cpp):    *)
(* the two tables ::flagsById and ::flagsByName after any calls of add.    *)
(* An id that is not known has the empty name, a name that is not known    *)
(* the id 0; insert puts its value in the place of an older one.           *)
(***************************************************************************)
\* Flag::add on both tables.
flagAddBoth(t, name, id) ==
    [byId |-> [t.byId EXCEPT ![id] = name],
     byName |-> flagAdd(t.byName, name, id)]

\* Flag::name.
flagName(t, id) == IF id \in DOMAIN t.byId THEN t.byId[id] ELSE ""

\* Flag::setup and Flag::reload leave both tables empty.
InitFlagTables ==
    fl = [byId |-> [i \in 1 .. MaxFlagId |-> ""],
          byName |-> [n \in {lower(x) : x \in FlagNames} |-> 0]]

FlagAdd(name, id) ==
    /\ fl' = flagAddBoth(fl, name, id)
    /\ UNCHANGED notFlag

NextFlagTables == \E name \in FlagNames, id \in 1 .. MaxFlagId : FlagAdd(name, id)

FlagTablesInit ==
    IdleMailbox /\ IdleCreator /\ IdleFetcher /\ IdleBatch
    /\ IdleUndelete /\ IdleLoop /\ IdleRun /\ InitFlagTables
    /\ IdleRound /\ IdleSlots /\ IdleSort /\ IdleHeader

SpecFlagTables == FlagTablesInit /\ [][NextFlagTables]_vars

\* C38: after any calls of Flag::add, every id with a known name is the id
\* of its name, and every name with a known id is, ignoring case, the name
\* of its id.
FlagTablesAgree ==
    /\ \A i \in 1 .. MaxFlagId :
          flagName(fl, i) # "" => flagId(fl.byName, flagName(fl, i)) = i
    /\ \A n \in FlagNames :
          flagId(fl.byName, n) # 0 =>
              lower(flagName(fl, flagId(fl.byName, n))) = lower(n)

(***************************************************************************)
(* Header and its cached verification (message/header.cpp).  A field is    *)
(* held as its type, its value (for an address field the set of its        *)
(* addresses), whether it has an error, whether it is parsed, and whether  *)
(* its value holds 8-bit bytes, and then whether these are well-formed     *)
(* UTF-8.  The fields are of the types From, To, Date, Subject, Message-Id *)
(* and Other; the header has no companion Multipart.  The error of a       *)
(* Header is held as <<>> for the empty string and as a tuple of what the  *)
(* message says otherwise.                                                 *)
(***************************************************************************)
\* How many fields are added to a Header from outside.
MaxFields == 3

Modes == {"Rfc2822", "Mime"}

AddressTypes == {"To", "Cc", "Bcc", "ReplyTo", "From"}

HeaderField(t, value, error, parsed, eight) ==
    [type |-> t, value |-> value, error |-> error, parsed |-> parsed,
     eight |-> eight]

\* The fields HeaderField::create makes of what a message holds.
ParsedFields ==
    {HeaderField("From", {"x"}, FALSE, TRUE, "none"),
     HeaderField("To", {"x"}, FALSE, TRUE, "none"),
     HeaderField("To", {"y"}, TRUE, FALSE, "none"),
     HeaderField("Date", "v", FALSE, TRUE, "none"),
     HeaderField("Date", "w", TRUE, FALSE, "none"),
     HeaderField("Subject", "v", FALSE, TRUE, "none"),
     HeaderField("Subject", "w", FALSE, FALSE, "good"),
     HeaderField("Subject", "z", FALSE, FALSE, "bad"),
     HeaderField("Other", "v", FALSE, TRUE, "none"),
     HeaderField("Other", "z", FALSE, FALSE, "bad"),
     HeaderField("MessageId", "v", TRUE, FALSE, "none")}

\* The rows of conditions[] for the types held, in the table's order.
conditions ==
    <<[t |-> "To", min |-> 0, max |-> 1, m |-> "Rfc2822"],
      [t |-> "MessageId", min |-> 0, max |-> 1, m |-> "Rfc2822"],
      [t |-> "Subject", min |-> 0, max |-> 1, m |-> "Rfc2822"],
      [t |-> "From", min |-> 1, max |-> 1, m |-> "Rfc2822"],
      [t |-> "Date", min |-> 1, max |-> 1, m |-> "Rfc2822"]>>

occurrences(fields, t) ==
    Cardinality({i \in DOMAIN fields : fields[i].type = t})

\* Header::field( t, 0 ): the place of the first field of type t, or 0.
firstField(fields, t) ==
    LET at0 == {i \in DOMAIN fields : fields[i].type = t}
    IN  IF at0 = {} THEN 0 ELSE CHOOSE i \in at0 : \A j \in at0 : i <= j

\* What Header::verify leaves in d->error for a list of fields.
verifyFields(mode, fields) ==
    LET bad == {i \in DOMAIN fields : fields[i].error}
        off == {i \in DOMAIN conditions :
                   /\ conditions[i].m = mode
                   /\ \/ occurrences(fields, conditions[i].t)
                           < conditions[i].min
                      \/ occurrences(fields, conditions[i].t)
                           > conditions[i].max}
    IN  IF bad # {}
        THEN <<"field", fields[CHOOSE i \in bad : \A j \in bad : i <= j].type>>
        ELSE IF off = {} THEN <<>>
        ELSE LET c == conditions[CHOOSE i \in off : \A j \in off : j <= i]
             IN  <<IF c.max < occurrences(fields, c.t)
                   THEN "At most" ELSE "At least",
                   c.t, occurrences(fields, c.t)>>

\* Header::verify
verify(h) ==
    IF h.verified THEN h
    ELSE [h EXCEPT !.verified = TRUE,
                   !.error = verifyFields(h.mode, h.fields)]

\* Header::add( hf )
headerAdd(h, hf) ==
    LET first == firstField(h.fields, hf.type)
    IN  IF hf.type \in AddressTypes /\ first # 0
        THEN [h EXCEPT !.fields[first].value = @ \cup hf.value]
        ELSE [h EXCEPT !.fields = Append(@, hf), !.verified = FALSE]

\* Header::removeField
removeField(h, t) ==
    [h EXCEPT !.fields = SelectSeq(@, LAMBDA f : f.type # t),
              !.verified = FALSE]

\* Header::addresses( t ) is a null pointer.
noAddresses(h, t) ==
    firstField(h.fields, t) = 0 \/ h.fields[firstField(h.fields, t)].value = {}

\* Header::simplify, for a Header without Content-* fields, Mime-Version,
\* Sender and Return-Path: what it does to Mime-Version, to Message-Id and
\* to the address fields.
headerSimplify(h) ==
    LET h1 == removeField(h, "MimeVersion")
        m == firstField(h1.fields, "MessageId")
        h2 == IF m # 0 /\ h1.fields[m].value = ""
              THEN removeField(h1, "MessageId") ELSE h1
        h3 == IF noAddresses(h2, "Sender")
              THEN removeField(h2, "Sender") ELSE h2
        h4 == IF noAddresses(h3, "ReturnPath")
              THEN removeField(h3, "ReturnPath") ELSE h3
    IN  IF noAddresses(h4, "To") THEN removeField(h4, "To") ELSE h4

\* Header::repair, line 592-614: of the fields of a type that are too many,
\* those behind the first that have the first one's value are taken out.
RECURSIVE repairDuplicates(_, _, _, _)
repairDuplicates(fields, mode, occ, i) ==
    IF i > Len(conditions) THEN fields
    ELSE LET c == conditions[i]
             first == firstField(fields, c.t)
             kept == IF c.m = mode /\ occ[c.t] > c.max /\ first # 0
                     THEN [j \in DOMAIN fields |->
                              ~(/\ fields[j].type = c.t
                                /\ j # first
                                /\ fields[j].value = fields[first].value)]
                     ELSE [j \in DOMAIN fields |-> TRUE]
             marked == [j \in DOMAIN fields |->
                           [f |-> fields[j], keep |-> kept[j]]]
             left == SelectSeq(marked, LAMBDA e : e.keep)
         IN  repairDuplicates([j \in DOMAIN left |-> left[j].f], mode, occ,
                              i + 1)

\* Line 631-656 for one type: if there is a valid field of the type, it
\* alone stays.
keepFirstValid(fields, occ, t) ==
    LET ok == {i \in DOMAIN fields : fields[i].type = t /\ ~fields[i].error}
        firstValid == IF ok = {} THEN 0
                      ELSE CHOOSE i \in ok : \A j \in ok : i <= j
        marked == [j \in DOMAIN fields |->
                      [f |-> fields[j],
                       keep |-> fields[j].type # t \/ j = firstValid]]
        left == SelectSeq(marked, LAMBDA e : e.keep)
    IN  IF occ[t] > 1 /\ firstValid # 0
        THEN [j \in DOMAIN left |-> left[j].f]
        ELSE fields

\* Header::repair( 0 )
repair(h) ==
    LET h0 == verify(h)
        occ == [t \in {conditions[i].t : i \in DOMAIN conditions} |->
                   occurrences(h0.fields, t)]
        f1 == repairDuplicates(h0.fields, h0.mode, occ, 1)
        f2 == keepFirstValid(keepFirstValid(f1, occ, "Date"), occ,
                             "MessageId")
        h1 == [h0 EXCEPT !.fields = f2]
        h2 == IF occ["Date"] = 0 /\ h1.mode = "Rfc2822"
              THEN headerAdd(h1, HeaderField("Date", "now", FALSE, TRUE,
                                             "none"))
              ELSE h1
        f3 == IF occ["MessageId"] > 0
              THEN SelectSeq(h2.fields,
                             LAMBDA f : ~(f.type = "MessageId" /\ f.error))
              ELSE h2.fields
    IN  IF h0.error = <<>> /\ \A i \in DOMAIN h0.fields : h0.fields[i].parsed
        THEN h0
        ELSE [h2 EXCEPT !.fields = f3, !.verified = FALSE]

\* The codecs fix8BitFields is called with, and c->wellformed() after
\* c->toUnicode( v ) of a field's value.
Codecs == {"utf-8", "iso-8859-1"}

wellformed(c, f) == c = "iso-8859-1" \/ f.eight = "good"

\* Header::fix8BitFields( c ), from field i on.
RECURSIVE fix8BitFrom(_, _, _)
fix8BitFrom(h, c, i) ==
    IF i > Len(h.fields) THEN h
    ELSE LET f == h.fields[i]
         IN  IF ~(/\ ~f.parsed
                  /\ f.type \in {"Subject", "Other"}
                  /\ f.eight # "none")
             THEN fix8BitFrom(h, c, i + 1)
             ELSE IF wellformed(c, f)
             THEN fix8BitFrom([h EXCEPT !.fields[i].parsed = TRUE,
                                        !.fields[i].eight = "none"],
                              c, i + 1)
             ELSE IF f.type = "Other"
             THEN fix8BitFrom([h EXCEPT !.fields =
                                  SubSeq(@, 1, i - 1)
                                  \o SubSeq(@, i + 1, Len(@))],
                              c, i)
             ELSE IF h.error = <<>>
             THEN fix8BitFrom([h EXCEPT !.error = <<"Cannot parse", f.type>>],
                              c, i + 1)
             ELSE fix8BitFrom(h, c, i + 1)

fix8BitFields(h, c) == fix8BitFrom(h, c, 1)

\* Header::Header( m )
InitHeaderPart ==
    \E m \in Modes :
        hdr = [mode |-> m, verified |-> FALSE, error |-> <<>>,
               fields |-> <<>>]

HeaderAdd(hf) ==
    /\ Len(hdr.fields) < MaxFields
    /\ hdr' = headerAdd(hdr, hf)
    /\ UNCHANGED notHeader

HeaderRemoveField(t) ==
    /\ hdr' = removeField(hdr, t)
    /\ UNCHANGED notHeader

HeaderSimplify ==
    /\ hdr' = headerSimplify(hdr)
    /\ UNCHANGED notHeader

HeaderRepair ==
    /\ hdr' = repair(hdr)
    /\ UNCHANGED notHeader

HeaderFix8BitFields(c) ==
    /\ hdr' = fix8BitFields(hdr, c)
    /\ UNCHANGED notHeader

\* Header::valid() or Header::error() is called.
HeaderValid ==
    /\ hdr' = verify(hdr)
    /\ UNCHANGED notHeader

NextHeader ==
    \/ \E hf \in ParsedFields : HeaderAdd(hf)
    \/ \E t \in {"To", "Date", "Subject"} : HeaderRemoveField(t)
    \/ HeaderSimplify
    \/ HeaderRepair
    \/ \E c \in Codecs : HeaderFix8BitFields(c)
    \/ HeaderValid

HeaderInit ==
    IdleMailbox /\ IdleCreator /\ IdleFetcher /\ IdleBatch
    /\ IdleUndelete /\ IdleLoop /\ IdleRun /\ IdleFlag
    /\ IdleRound /\ IdleSlots /\ IdleSort /\ InitHeaderPart

SpecHeader == HeaderInit /\ [][NextHeader]_vars

\* C39: whenever a Header holds a cached verification, its error is the
\* one a verification of its fields as they are would find; so valid() and
\* error() answer as a fresh verification would.
CachedVerificationIsFresh ==
    hdr.verified => hdr.error = verifyFields(hdr.mode, hdr.fields)

=============================================================================
